---- MODULE Spec2Model ----
(***************************************************************************)
(* Model of the anomaly-scoring pipeline of pipeline/anomaly:              *)
(*   ensemble.py        AnomalyDetectionEnsemble, AnomalyStatistics,       *)
(*                      severity_from_votes                                *)
(*   classifier.py      F1FeatureEngineer, F1SeverityClassifier,           *)
(*                      ClassifierPipeline                                 *)
(*   run_f1_anomaly.py  run_ensemble_per_system, run_classifier_per_system,*)
(*                      compute_system_health, run_driver                  *)
(*                                                                         *)
(* Numbers.  Scores are floats in the code; here they are fixed-point      *)
(* integers in units of 1/Scale.  Percentiles are kept exact by carrying   *)
(* them multiplied by 20 (every quantile the code asks for is a multiple   *)
(* of 1/20).  Divisions round down.                                        *)
(*                                                                         *)
(* Names.  A column name is the sequence of its "_"-separated tokens, so   *)
(* "KNN_AnomalyScore" is <<"KNN", "AnomalyScore">>; str.endswith("_x") and *)
(* str.startswith(feat) are computed on the tokens.                        *)
(*                                                                         *)
(* Libraries.  scikit-learn and LightGBM are not part of the repository:   *)
(* what a fit/predict call returns (or that it raises) is an input of the  *)
(* action that makes the call, drawn from a bounded family.                *)
(***************************************************************************)
EXTENDS Integers, Sequences, FiniteSets, TLC

VARIABLES
    pc,         \* position in run_driver
    lgbm,       \* LGBM_AVAILABLE (classifier.py:24-28)
    merged,     \* merged_df: [n |-> races, cols |-> column names]
    colmap,     \* system_col_map: sequence of <<system, feature_cols>>
    queue,      \* systems the current per-system loop has still to visit
    system,     \* the system the ensemble loop body is working on
    raw,        \* raw_data, the table the ensemble is adding columns to
    ran,        \* detectors that have produced their columns (in order)
    failed,     \* detectors whose fit/predict raised and was caught
    normAt,     \* what `ran` was when _normalize_scores ran
    normCols,   \* the columns _normalize_scores rescaled
    results,    \* system_results of run_ensemble_per_system
    raised,     \* systems whose loop body raised: <<stage, system>>
    enriched,   \* the dict run_classifier_per_system returns
    outcome,    \* per system, how the classifier stage ended
    output,     \* what run_driver returns
    args,       \* the arguments of the call (of run_driver, or of a
                \* function called on its own)
    ret,        \* what a function called on its own returned
    files,      \* the classifier directory: path -> pickled bundle
    saved       \* history: the save_model calls so far, in order

vars == <<pc, lgbm, merged, colmap, queue, system, raw, ran, failed,
          normAt, normCols, results, raised, enriched, outcome, output,
          args, ret, files, saved>>

---------------------------------------------------------------------------
(* Bounds of the model *)

\* the datasets without a known outlier have at most this many races
MaxRaces == 3

\* on such a dataset a detector scores at most this many races as outlying
MaxOutliers == 1

\* the races of the end-to-end scenario with one injected outlier race
ScenarioRaces == 20

\* save_model is called at most this many times
MaxSaves == 2

\* fixed-point resolution of a score: 1.0 is Scale
Scale == 1000

---------------------------------------------------------------------------
(* Sequences and arithmetic *)

Max(a, b) == IF a >= b THEN a ELSE b

Min(a, b) == IF a <= b THEN a ELSE b

Clip(x, lo, hi) == Max(lo, Min(hi, x))

RECURSIVE SumSeq(_)
SumSeq(s) == IF s = <<>> THEN 0 ELSE Head(s) + SumSeq(Tail(s))

Range(s) == {s[i] : i \in DOMAIN s}

\* how many entries of a sequence of booleans are true
Count(b) == Cardinality({i \in DOMAIN b : b[i]})

RECURSIVE Insert(_, _)
Insert(x, s) ==
    IF s = <<>> THEN <<x>>
    ELSE IF x <= Head(s) THEN <<x>> \o s
    ELSE <<Head(s)>> \o Insert(x, Tail(s))

RECURSIVE SortAsc(_)
SortAsc(s) == IF s = <<>> THEN <<>> ELSE Insert(Head(s), SortAsc(Tail(s)))

RECURSIVE ISqrtIn(_, _, _)
ISqrtIn(v, lo, hi) ==
    IF lo >= hi THEN lo
    ELSE LET mid == (lo + hi + 1) \div 2
         IN IF mid * mid <= v THEN ISqrtIn(v, mid, hi) ELSE ISqrtIn(v, lo, mid - 1)

\* floor of the square root of v, for 0 <= v <= Scale * Scale
ISqrt(v) == ISqrtIn(v, 0, Scale)

\* np.percentile / Series.quantile at q = k/20 (linear interpolation),
\* multiplied by 20
Quantile20(s, k) ==
    LET v == SortAsc(s)
        h == k * (Len(s) - 1)
        i == h \div 20
        r == h % 20
    IN IF r = 0 THEN 20 * v[i + 1]
       ELSE 20 * v[i + 1] + r * (v[i + 2] - v[i + 1])

---------------------------------------------------------------------------
(* Tables (DataFrames): n rows, the column names in order, the columns *)

Table(n, cols, val) == [n |-> n, cols |-> cols, val |-> val]

EmptyTable == Table(0, <<>>, <<>>)

HasCol(t, c) == \E k \in DOMAIN t.cols : t.cols[k] = c

\* df[c] = v: a new column goes last, an existing one is overwritten in place
SetCol(t, c, v) ==
    [t EXCEPT !.cols = IF HasCol(t, c) THEN @ ELSE Append(@, c),
              !.val = (c :> v) @@ @]

\* a scalar assigned to a column is broadcast to every row
Broadcast(t, x) == [i \in 1..t.n |-> x]

\* The values of a telemetry column (a channel aggregate or a feature
\* engineered from one).  Only the detectors and LightGBM read them, and what
\* those return is an input of the model, so the values are not modelled.
Telemetry == "telemetry"

\* row.get(c, default)
RowGet(t, i, c, default) == IF HasCol(t, c) THEN t.val[c][i] ELSE default

\* str.endswith("_" + tok)
EndsWith(c, tok) == Len(c) >= 2 /\ c[Len(c)] = tok

\* str.startswith(feat), feat a telemetry channel name
StartsWith(c, feat) ==
    Len(c) >= Len(feat) /\ SubSeq(c, 1, Len(feat)) = feat

\* f"{name}_Anomaly" and f"{name}_AnomalyScore"
AnomalyCol(name) == <<name, "Anomaly">>

ScoreCol(name) == <<name, "AnomalyScore">>

\* c.replace("_Anomaly", "") / c.replace("_AnomalyScore", "") on such a column
ModelOf(c) == c[1]

RECURSIVE SetCols(_, _)
\* several column assignments, in order: each item is <<name, column>>
SetCols(t, items) ==
    IF items = <<>> THEN t
    ELSE SetCols(SetCol(t, Head(items)[1], Head(items)[2]), Tail(items))

---------------------------------------------------------------------------
(* ensemble.py: utilities *)

\* the rows of matrix data (its columns, each a sequence of one value a row)
\* with a value outside the fences Q1 - 1.5 IQR, Q3 + 1.5 IQR of its column,
\* an IQR of 0 counting as 1: outlier_mask of estimate_contamination
OutlierMask(data, n) ==
    LET Q1(c) == Quantile20(data[c], 5)
        Q3(c) == Quantile20(data[c], 15)
        IQR(c) == IF Q3(c) - Q1(c) = 0 THEN 20 ELSE Q3(c) - Q1(c)
        \* the fences multiplied by 40
        lower(c) == 2 * Q1(c) - 3 * IQR(c)
        upper(c) == 2 * Q3(c) + 3 * IQR(c)
    IN [i \in 1..n |->
          \E c \in DOMAIN data :
              40 * data[c][i] < lower(c) \/ 40 * data[c][i] > upper(c)]

\* a faulty estimate_contamination, to test C19 against: np.clip is missing
EstimateContaminationNoClip(data, n, method) ==
    IF method = "iqr"
    THEN (Scale * Count(OutlierMask(data, n))) \div n
    ELSE Scale \div 10

\* estimate_contamination on a matrix of n rows, in units of 1/Scale
EstimateContamination(data, n, method) ==
    Clip(IF method = "iqr"
         THEN (Scale * Count(OutlierMask(data, n))) \div n
         ELSE Scale \div 10,
         Scale \div 100, Scale \div 4)

\* statistical_threshold(scores, "tukey") = Q3 + 1.5 * IQR, multiplied by 40
StatisticalThreshold40(scores) ==
    LET q1 == Quantile20(scores, 5)
        q3 == Quantile20(scores, 15)
    IN 2 * q3 + 3 * (q3 - q1)

\* faulty MODEL_WEIGHTS, to test C23 against: the weights of OneClassSVM and
\* of KNN have changed places
ModelWeight10Swapped(m) ==
    CASE m = "IsolationForest" -> 10
      [] m = "Autoencoder" -> 9
      [] m = "OneClassSVM" -> 8
      [] m = "KNN" -> 6
      [] OTHER -> 5

\* MODEL_WEIGHTS, multiplied by 10; MODEL_WEIGHTS.get(m, 0.5)
ModelWeight10(m) ==
    CASE m = "IsolationForest" -> 10
      [] m = "Autoencoder" -> 9
      [] m = "OneClassSVM" -> 6
      [] m = "KNN" -> 8
      [] OTHER -> 5

---------------------------------------------------------------------------
(* ensemble.py: AnomalyDetectionEnsemble *)

\* a faulty loop body of _normalize_scores, to test C18 against: np.clip is
\* missing
NormalizeColumnNoClip(scores) ==
    LET p5 == Quantile20(scores, 1)
        p95 == Quantile20(scores, 19)
    IN [i \in DOMAIN scores |->
          IF p95 - p5 > 0
          THEN Scale \div 10
               + (((8 * Scale) \div 10) * (20 * scores[i] - p5)) \div (p95 - p5)
          ELSE (2 * Scale) \div 10]

\* the body of the loop of _normalize_scores, for one column: raw scores in
\* any unit in, scores in units of 1/Scale out
NormalizeColumn(scores) ==
    LET p5 == Quantile20(scores, 1)
        p95 == Quantile20(scores, 19)
    IN [i \in DOMAIN scores |->
          Clip(IF p95 - p5 > 0
               THEN Scale \div 10
                    + (((8 * Scale) \div 10) * (20 * scores[i] - p5)) \div (p95 - p5)
               ELSE (2 * Scale) \div 10,
               0, Scale)]

RECURSIVE NormalizeScores(_, _)
NormalizeScores(df, score_cols) ==
    IF score_cols = <<>> THEN df
    ELSE LET col == Head(score_cols)
         IN NormalizeScores(
                IF HasCol(df, col)
                THEN SetCol(df, col, NormalizeColumn(df.val[col]))
                ELSE df,
                Tail(score_cols))

\* what IsolationForest / SGDOneClassSVM predict from their decision function
LibPredict(decision) ==
    [i \in DOMAIN decision |-> IF decision[i] < 0 THEN -1 ELSE 1]

\* a faulty sklearn_models, to test C9 against: the except branch zeroes the
\* flag column and forgets the score column
SklearnModelDropsScore(raw_data, name, lib) ==
    IF lib.ok
    THEN LET preds == LibPredict(lib.decision)
         IN SetCols(raw_data,
                <<<<AnomalyCol(name),
                    [i \in 1..raw_data.n |-> IF preds[i] = -1 THEN 1 ELSE 0]>>,
                  <<ScoreCol(name),
                    [i \in 1..raw_data.n |-> -lib.decision[i]]>>>>)
    ELSE SetCol(raw_data, AnomalyCol(name), Broadcast(raw_data, 0))

\* one turn of the loop over algorithms in sklearn_models; lib is what
\* fit_predict and decision_function did: [ok, decision]
SklearnModel(raw_data, name, lib) ==
    IF lib.ok
    THEN LET preds == LibPredict(lib.decision)
         IN SetCols(raw_data,
                <<<<AnomalyCol(name),
                    [i \in 1..raw_data.n |-> IF preds[i] = -1 THEN 1 ELSE 0]>>,
                  <<ScoreCol(name),
                    [i \in 1..raw_data.n |-> -lib.decision[i]]>>>>)
    ELSE SetCols(raw_data,
                <<<<AnomalyCol(name), Broadcast(raw_data, 0)>>,
                  <<ScoreCol(name), Broadcast(raw_data, 0)>>>>)

\* _add_knn_distance_score; lib is what NearestNeighbors did: [ok, dist],
\* dist the average neighbour distances
AddKnnDistanceScore(out_df, lib) ==
    IF out_df.n <= 2 \/ ~lib.ok
    THEN SetCols(out_df,
                <<<<ScoreCol("KNN"), Broadcast(out_df, 0)>>,
                  <<AnomalyCol("KNN"), Broadcast(out_df, 0)>>>>)
    ELSE LET thr == StatisticalThreshold40(lib.dist)
         IN SetCols(out_df,
                <<<<ScoreCol("KNN"), lib.dist>>,
                  <<AnomalyCol("KNN"),
                    [i \in 1..out_df.n |->
                        IF 40 * lib.dist[i] >= thr THEN 1 ELSE 0]>>>>)

\* score_cols of sklearn_models: the columns that end with "_AnomalyScore"
ScoreColsOf(df) == SelectSeq(df.cols, LAMBDA c : EndsWith(c, "AnomalyScore"))

\* the last two statements of sklearn_models
NormalizeStep(raw_data) == NormalizeScores(raw_data, ScoreColsOf(raw_data))

\* n_components of _fast_reconstruction_error
PcaComponents(nfeat) == Max(2, Min(nfeat \div 2, 10))

\* PCA.fit raises unless n_components <= min(n_samples, n_features)
PcaFits(n, nfeat) == PcaComponents(nfeat) <= Min(n, nfeat)

\* Series.rank(pct=True) is Rank2 / (2 * n): ties share the average rank
Rank2(error, i) ==
    2 * Count([k \in DOMAIN error |-> error[k] < error[i]])
    + Count([k \in DOMAIN error |-> error[k] = error[i]]) + 1

\* a faulty _fast_reconstruction_error, to test C27 against: the threshold
\* is the fraction of the rows strictly below the fence
FastReconstructionErrorBelow(n, lib) ==
    IF lib.ok
    THEN LET threshold_raw == StatisticalThreshold40(lib.error)
         IN [rank2 |-> [i \in 1..n |-> Rank2(lib.error, i)],
             threshold2 |->
                2 * Count([k \in DOMAIN lib.error |->
                              40 * lib.error[k] < threshold_raw])]
    ELSE [rank2 |-> [i \in 1..n |-> 0], threshold2 |-> n]

\* _fast_reconstruction_error; lib is what the PCA did: [ok, error].
\* Returns the percentile ranks and the threshold, both multiplied by 2 * n
FastReconstructionError(n, lib) ==
    IF lib.ok
    THEN LET threshold_raw == StatisticalThreshold40(lib.error)
         IN [rank2 |-> [i \in 1..n |-> Rank2(lib.error, i)],
             threshold2 |->
                2 * Count([k \in DOMAIN lib.error |->
                              40 * lib.error[k] <= threshold_raw])]
    ELSE [rank2 |-> [i \in 1..n |-> 0], threshold2 |-> n]

\* run_autoencoder
RunAutoencoder(raw_data, lib) ==
    LET r == FastReconstructionError(raw_data.n, lib)
    IN SetCols(raw_data,
            <<<<AnomalyCol("Autoencoder"),
                [i \in 1..raw_data.n |->
                    IF r.rank2[i] > r.threshold2 THEN 1 ELSE 0]>>,
              <<ScoreCol("Autoencoder"),
                [i \in 1..raw_data.n |->
                    Clip((Scale * r.rank2[i]) \div (2 * raw_data.n), 0, Scale)]>>>>)

---------------------------------------------------------------------------
(* ensemble.py: AnomalyStatistics *)

VotedAnomaly == <<"Voted", "Anomaly">>

AnomalyScoreMean == <<"Anomaly", "Score", "Mean">>

AnomalyScoreSTD == <<"Anomaly", "Score", "STD">>

VotingScore == <<"Voting", "Score">>

ReliabilityWeightedScore == <<"Reliability", "Weighted", "Score">>

EnhancedAnomalyScore == <<"Enhanced", "Anomaly", "Score">>

AnomalyLevel == <<"Anomaly", "Level">>

\* the quantiles anomaly_insights takes, as twentieths: sq and std_q
SqPoints == {5, 10, 15, 17, 19}

StdQPoints == {5, 10, 15}

\* a faulty _classify, to test C5 against: every rung compares with > where
\* the code has >=
ClassifyStrict(score, std_dev, sq, std_q) ==
    LET adj == IF 20 * std_dev >= std_q[15] THEN Scale \div 10
               ELSE IF 20 * std_dev <= std_q[5] THEN -(Scale \div 10)
               ELSE 0
    IN IF 20 * score > sq[19] + 20 * adj THEN "critical"
       ELSE IF 20 * score > sq[17] + 20 * adj THEN "high"
       ELSE IF 20 * score > sq[15] THEN "medium"
       ELSE IF 20 * score > sq[10] THEN "low"
       ELSE "normal"

\* a faulty _classify, to test C25 against: the adjustment is made to the
\* medium rung as well
ClassifyAdjMedium(score, std_dev, sq, std_q) ==
    LET adj == IF 20 * std_dev >= std_q[15] THEN Scale \div 10
               ELSE IF 20 * std_dev <= std_q[5] THEN -(Scale \div 10)
               ELSE 0
    IN IF 20 * score >= sq[19] + 20 * adj THEN "critical"
       ELSE IF 20 * score >= sq[17] + 20 * adj THEN "high"
       ELSE IF 20 * score >= sq[15] + 20 * adj THEN "medium"
       ELSE IF 20 * score >= sq[10] THEN "low"
       ELSE "normal"

\* a faulty _classify, to test C10 against: the adjustment is left out
ClassifyNoAdj(score, std_dev, sq, std_q) ==
    IF 20 * score >= sq[19] THEN "critical"
    ELSE IF 20 * score >= sq[17] THEN "high"
    ELSE IF 20 * score >= sq[15] THEN "medium"
    ELSE IF 20 * score >= sq[10] THEN "low"
    ELSE "normal"

\* _classify; sq and std_q hold the quantiles multiplied by 20, indexed by
\* the quantile in twentieths (sq[19] is 20 * sq[0.95])
Classify(score, std_dev, sq, std_q) ==
    LET adj == IF 20 * std_dev >= std_q[15] THEN Scale \div 10
               ELSE IF 20 * std_dev <= std_q[5] THEN -(Scale \div 10)
               ELSE 0
    IN IF 20 * score >= sq[19] + 20 * adj THEN "critical"
       ELSE IF 20 * score >= sq[17] + 20 * adj THEN "high"
       ELSE IF 20 * score >= sq[15] THEN "medium"
       ELSE IF 20 * score >= sq[10] THEN "low"
       ELSE "normal"

\* DataFrame.std(axis=1) of k >= 2 scores with sum s1 and sum of squares s2
\* (sample standard deviation, ddof = 1)
SampleStd(k, s1, s2) == ISqrt((k * s2 - s1 * s1) \div (k * (k - 1)))

\* score_std of anomaly_insights for row i
ScoreStd(df, scores, i) ==
    SampleStd(Len(scores),
              SumSeq([j \in 1..Len(scores) |-> df.val[scores[j]][i]]),
              SumSeq([j \in 1..Len(scores) |->
                        df.val[scores[j]][i] * df.val[scores[j]][i]]))

\* score_mean of anomaly_insights for row i, the KNN score folded in
ScoreMean(df, scores, i) ==
    LET s1 == SumSeq([j \in 1..Len(scores) |-> df.val[scores[j]][i]])
    IN IF HasCol(df, ScoreCol("KNN"))
       THEN (s1 + df.val[ScoreCol("KNN")][i]) \div (Len(scores) + 1)
       ELSE s1 \div Len(scores)

\* a faulty anomaly_insights, to test C11 against: the table is returned as
\* it came, no level set
InsightsDefaultUnset(df) == df

\* anomaly_insights when none of its flag columns or none of its score
\* columns is there
InsightsDefault(df) == SetCol(df, AnomalyLevel, Broadcast(df, "normal"))

\* anomaly_insights
AnomalyInsights(df) ==
    LET anoms == SelectSeq(<<AnomalyCol("IsolationForest"),
                             AnomalyCol("OneClassSVM"),
                             AnomalyCol("Autoencoder")>>,
                           LAMBDA a : HasCol(df, a))
        scores == SelectSeq(<<ScoreCol("IsolationForest"),
                              ScoreCol("OneClassSVM"),
                              ScoreCol("Autoencoder")>>,
                            LAMBDA c : HasCol(df, c))
        rows == 1..df.n
        knnA == HasCol(df, AnomalyCol("KNN"))
        knnS == HasCol(df, ScoreCol("KNN"))
        anomaly_sum == [i \in rows |->
            SumSeq([j \in 1..Len(anoms) |-> df.val[anoms[j]][i]])
            + (IF knnA THEN df.val[AnomalyCol("KNN")][i] ELSE 0)]
        score_mean == [i \in rows |-> ScoreMean(df, scores, i)]
        score_std == [i \in rows |-> ScoreStd(df, scores, i)]
        model_names == [j \in 1..Len(anoms) |-> ModelOf(anoms[j])]
                       \o (IF knnA THEN <<"KNN">> ELSE <<>>)
        weights == [j \in 1..Len(model_names) |-> ModelWeight10(model_names[j])]
        all_scores_cols == scores \o (IF knnS THEN <<ScoreCol("KNN")>> ELSE <<>>)
        weighted == [i \in rows |->
            SumSeq([j \in 1..Len(all_scores_cols) |->
                      df.val[all_scores_cols[j]][i] * weights[j]])
            \div SumSeq(weights)]
        enhanced == [i \in rows |->
            weighted[i] - score_std[i] \div 10
            + (IF anomaly_sum[i] = Len(model_names) THEN (5 * Scale) \div 100 ELSE 0)]
        sq == [k \in SqPoints |-> Quantile20(enhanced, k)]
        std_q == [k \in StdQPoints |-> Quantile20(score_std, k)]
    IN IF anoms = <<>> \/ scores = <<>>
       THEN InsightsDefault(df)
       ELSE SetCols(df,
              <<<<VotedAnomaly,
                  [i \in rows |-> IF anomaly_sum[i] >= 2 THEN 1 ELSE 0]>>,
                <<AnomalyScoreMean, score_mean>>,
                <<AnomalyScoreSTD, score_std>>,
                <<VotingScore,
                  [i \in rows |-> (Scale * anomaly_sum[i])
                                  \div (Len(anoms) + (IF knnA THEN 1 ELSE 0))]>>,
                <<ReliabilityWeightedScore, weighted>>,
                <<EnhancedAnomalyScore, enhanced>>,
                <<AnomalyLevel,
                  [i \in rows |-> Classify(enhanced[i], score_std[i], sq, std_q)]>>>>)

\* severity_from_votes
SeverityFromVotes(vote_count, total_models) ==
    IF vote_count = 0 THEN "normal"
    ELSE IF vote_count = 1 THEN "low"
    ELSE IF vote_count = 2 THEN "medium"
    ELSE IF vote_count = 3 THEN "high"
    ELSE "critical"

---------------------------------------------------------------------------
(* classifier.py: constants and feature engineering *)

SEVERITY_CLASSES == <<"normal", "low", "medium", "high", "critical">>

\* SEVERITY_TO_INT[s]
SeverityToInt(s) == (CHOOSE i \in 1..Len(SEVERITY_CLASSES) : SEVERITY_CLASSES[i] = s) - 1

\* INT_TO_SEVERITY.get(i, "normal")
IntToSeverity(i) ==
    IF i + 1 \in 1..Len(SEVERITY_CLASSES) THEN SEVERITY_CLASSES[i + 1] ELSE "normal"

\* MAINTENANCE_ACTION_MAP.get(severity, "none")
MaintenanceAction(severity) ==
    CASE severity = "critical" -> "alert_and_remediate"
      [] severity = "high" -> "alert"
      [] severity = "medium" -> "log_and_monitor"
      [] severity = "low" -> "log"
      [] OTHER -> "none"

MIN_TRAIN_SAMPLES == 6

MIN_CLASSES == 2

ClassifierSeverity == <<"classifier", "severity">>

ClassifierConfidence == <<"classifier", "confidence">>

\* f"classifier_prob_{sev}"
ClassifierProb(sev) == <<"classifier", "prob", sev>>

RECURSIVE TemporalCols(_, _)
\* new_cols of add_temporal_features
TemporalCols(df_cols, feature_cols) ==
    IF feature_cols = <<>> THEN <<>>
    ELSE LET col == Head(feature_cols)
         IN (IF col \in Range(df_cols)
             THEN <<col \o <<"delta">>, col \o <<"roll3", "mean">>,
                    col \o <<"roll3", "std">>>>
             ELSE <<>>)
            \o TemporalCols(df_cols, Tail(feature_cols))

\* the names add_season_context returns
SeasonCols == <<<<"race", "index">>, <<"season", "pct">>, <<"is", "second", "half">>>>

\* all_features of F1FeatureEngineer.engineer
EngineerCols(df_cols, feature_cols) ==
    feature_cols \o TemporalCols(df_cols, feature_cols) \o SeasonCols

\* the tokens of the model's column names in which _LABEL_LEAK_PATTERN finds
\* one of its keywords (case-insensitive search; no keyword holds a "_")
LeakTokens ==
    {"Anomaly", "AnomalyScore", "Score", "Level", "Voted", "Weighted",
     "Enhanced", "Reliability", "Voting", "Distance", "severity"}

\* _LABEL_LEAK_PATTERN.search(c)
LabelLeakPattern(c) == \E i \in DOMAIN c : c[i] \in LeakTokens

\* _IDENTIFIER_PATTERN.match(c): the whole name is one of the identifiers
IdentifierPattern(c) ==
    c \in {<<"id">>, <<"", "id">>, <<"index">>, <<"idx">>, <<"race">>,
            <<"driver">>, <<"samples">>, <<"bio", "samples">>}

\* numeric columns of the table the classifier is given: every column but
\* the severity labels
IsNumericCol(c) == c # AnomalyLevel /\ c # ClassifierSeverity

\* the columns _remove_label_leakage keeps
RemoveLabelLeakage(df_cols) ==
    SelectSeq(df_cols,
        LAMBDA c : IsNumericCol(c) /\ ~LabelLeakPattern(c) /\ ~IdentifierPattern(c))

\* the characters of [a-zA-Z0-9_]
WordChars ==
    {"a", "b", "c", "d", "e", "f", "g", "h", "i", "j", "k", "l", "m",
     "n", "o", "p", "q", "r", "s", "t", "u", "v", "w", "x", "y", "z",
     "A", "B", "C", "D", "E", "F", "G", "H", "I", "J", "K", "L", "M",
     "N", "O", "P", "Q", "R", "S", "T", "U", "V", "W", "X", "Y", "Z",
     "0", "1", "2", "3", "4", "5", "6", "7", "8", "9", "_"}

\* re.sub(r"[^a-zA-Z0-9_]", "_", str(c)) on a name given as its characters
SanitizeName(c) == [k \in DOMAIN c |-> IF c[k] \in WordChars THEN c[k] ELSE "_"]

RECURSIVE DecimalChars(_)
\* the characters of str(v), v >= 0
DecimalChars(v) ==
    LET digit == <<"0", "1", "2", "3", "4", "5", "6", "7", "8", "9">>[(v % 10) + 1]
    IN IF v < 10 THEN <<digit>> ELSE Append(DecimalChars(v \div 10), digit)

RECURSIVE UniqueNames(_, _, _)
\* the loop of _sanitize_feature_names over what is left of sanitized:
\* seen maps a name met before to its count, unique is the list so far
UniqueNames(sanitized, seen, unique) ==
    IF sanitized = <<>> THEN unique
    ELSE LET c == Head(sanitized)
         IN IF c \in DOMAIN seen
            THEN UniqueNames(Tail(sanitized),
                             [seen EXCEPT ![c] = @ + 1],
                             Append(unique, c \o <<"_">> \o DecimalChars(seen[c] + 1)))
            ELSE UniqueNames(Tail(sanitized),
                             (c :> 0) @@ seen,
                             Append(unique, c))

\* the column names _sanitize_feature_names gives a table with columns
\* df_cols
SanitizeFeatureNames(df_cols) ==
    UniqueNames([k \in DOMAIN df_cols |-> SanitizeName(df_cols[k])], <<>>, <<>>)

---------------------------------------------------------------------------
(* classifier.py: F1SeverityClassifier *)

\* train returned None
NoBundle == [none |-> TRUE]

\* a faulty _compute_confidence_weights, to test C15 against: the mask is
\* returned however few samples it keeps
ConfidenceMaskNoFloor(df) ==
    IF ~HasCol(df, AnomalyScoreSTD) THEN [i \in 1..df.n |-> TRUE]
    ELSE [i \in 1..df.n |->
            10 * (2 * df.n - Rank2(df.val[AnomalyScoreSTD], i)) > 2 * df.n]

\* mask of _compute_confidence_weights: confidence = 1 - rank(pct=True) of
\* Anomaly_Score_STD, kept when above 0.1, all kept when too few remain
ConfidenceMask(df) ==
    IF ~HasCol(df, AnomalyScoreSTD) THEN [i \in 1..df.n |-> TRUE]
    ELSE LET std == df.val[AnomalyScoreSTD]
             mask == [i \in 1..df.n |->
                        10 * (2 * df.n - Rank2(std, i)) > 2 * df.n]
         IN IF Count(mask) < MIN_TRAIN_SAMPLES
            THEN [i \in 1..df.n |-> TRUE]
            ELSE mask

\* y_all of train: labels as class numbers, unknown labels as "normal"
EncodeLabels(labels) ==
    [i \in DOMAIN labels |->
        IF labels[i] \in Range(SEVERITY_CLASSES) THEN SeverityToInt(labels[i])
        ELSE SeverityToInt("normal")]

\* weights of _compute_confidence_weights, in units of 1 / (2 * n): the
\* confidence 1 - rank(pct=True) of the kept rows (all rows in the keep-all
\* case); <<>> stands for None, returned when there is no Anomaly_Score_STD
ConfidenceWeights(df, kept) ==
    IF ~HasCol(df, AnomalyScoreSTD) THEN <<>>
    ELSE [i \in kept |-> 2 * df.n - Rank2(df.val[AnomalyScoreSTD], i)]

\* compute_sample_weight("balanced", y_train) as fractions num / den:
\* n_samples / (n_classes * count of the row's class)
ClassWeights(y_train) ==
    [i \in DOMAIN y_train |->
        [num |-> Cardinality(DOMAIN y_train),
         den |-> Cardinality(Range(y_train))
                 * Cardinality({j \in DOMAIN y_train : y_train[j] = y_train[i]})]]

\* combined_weights of train as fractions num / den: confidence times
\* class weight, the class weight alone without confidence weights
CombinedWeights(df, kept, y_train) ==
    LET conf_weights == ConfidenceWeights(df, kept)
        class_weights == ClassWeights(y_train)
    IN IF /\ HasCol(df, AnomalyScoreSTD)
          /\ Cardinality(DOMAIN conf_weights) = Cardinality(DOMAIN class_weights)
       THEN [i \in kept |->
               [num |-> conf_weights[i] * class_weights[i].num,
                den |-> 2 * df.n * class_weights[i].den]]
       ELSE class_weights

\* a faulty train, to test C12 against: the check of the number of rows is
\* left out
TrainAnyLength(df, label_col, lgbm_available) ==
    IF ~lgbm_available THEN NoBundle
    ELSE IF ~HasCol(df, label_col) THEN NoBundle
    ELSE LET y_all == EncodeLabels(df.val[label_col])
             x_clean == RemoveLabelLeakage(df.cols)
             conf_mask == ConfidenceMask(df)
             kept == {i \in 1..df.n : conf_mask[i]}
         IN IF Cardinality(Range(y_all)) < MIN_CLASSES THEN NoBundle
            ELSE IF x_clean = <<>> THEN NoBundle
            ELSE [none |-> FALSE,
                  classes |-> {y_all[i] : i \in kept},
                  original_feature_names |-> x_clean,
                  y_train |-> [i \in kept |-> y_all[i]],
                  sample_weight |->
                      CombinedWeights(df, kept, [i \in kept |-> y_all[i]]),
                  n_samples |-> Cardinality(kept)]

\* train, up to the call of model.fit: NoBundle when training is not
\* possible, else what the fitted bundle holds
Train(df, label_col, lgbm_available) ==
    IF ~lgbm_available THEN NoBundle
    ELSE IF ~HasCol(df, label_col) THEN NoBundle
    ELSE LET y_all == EncodeLabels(df.val[label_col])
             x_clean == RemoveLabelLeakage(df.cols)
             conf_mask == ConfidenceMask(df)
             kept == {i \in 1..df.n : conf_mask[i]}
         IN IF Cardinality(Range(y_all)) < MIN_CLASSES THEN NoBundle
            ELSE IF df.n < MIN_TRAIN_SAMPLES THEN NoBundle
            ELSE IF x_clean = <<>> THEN NoBundle
            ELSE [none |-> FALSE,
                  classes |-> {y_all[i] : i \in kept},
                  original_feature_names |-> x_clean,
                  y_train |-> [i \in kept |-> y_all[i]],
                  sample_weight |->
                      CombinedWeights(df, kept, [i \in kept |-> y_all[i]]),
                  n_samples |-> Cardinality(kept)]

\* _fallback
Fallback(df) ==
    LET base ==
          SetCols(df,
            <<<<ClassifierSeverity,
                IF HasCol(df, AnomalyLevel) THEN df.val[AnomalyLevel]
                ELSE Broadcast(df, "normal")>>,
              <<ClassifierConfidence, Broadcast(df, 0)>>>>)
    IN SetCols(base,
         [k \in 1..Len(SEVERITY_CLASSES) |->
            <<ClassifierProb(SEVERITY_CLASSES[k]), Broadcast(df, 0)>>])

\* the largest value of function f
MaxOf(f) == CHOOSE x \in {f[k] : k \in DOMAIN f} : \A k \in DOMAIN f : f[k] <= x

\* model.classes_ of a fitted bundle: the classes it was trained on, in
\* ascending order
TrainedClasses(model_bundle) ==
    SelectSeq([k \in 1..Len(SEVERITY_CLASSES) |-> k - 1],
              LAMBDA c : c \in model_bundle.classes)

\* list(seq).index(x)
IndexOf(seq, x) == (CHOOSE k \in DOMAIN seq : seq[k] = x) - 1

\* a faulty predict, to test C13 against: a class the model was not trained
\* on gets no probability column
PredictTrainedOnly(df, model_bundle, lib) ==
    IF model_bundle.none THEN Fallback(df)
    ELSE LET trained_classes == TrainedClasses(model_bundle)
             base ==
               SetCols(df,
                 <<<<ClassifierSeverity,
                     [i \in 1..df.n |-> IntToSeverity(lib.preds[i])]>>,
                   <<ClassifierConfidence,
                     [i \in 1..df.n |-> MaxOf(lib.proba[i])]>>>>)
         IN SetCols(base,
              [k \in 1..Len(trained_classes) |->
                 <<ClassifierProb(IntToSeverity(trained_classes[k])),
                   [i \in 1..df.n |-> lib.proba[i][k]]>>])

\* predict; lib is what the fitted model returns: preds[i] the class
\* predicted for row i, proba[i] the row of predict_proba, one probability
\* for each class of model.classes_ in that order
Predict(df, model_bundle, lib) ==
    IF model_bundle.none THEN Fallback(df)
    ELSE LET trained_classes == TrainedClasses(model_bundle)
             base ==
               SetCols(df,
                 <<<<ClassifierSeverity,
                     [i \in 1..df.n |-> IntToSeverity(lib.preds[i])]>>,
                   <<ClassifierConfidence,
                     [i \in 1..df.n |-> MaxOf(lib.proba[i])]>>>>)
         IN SetCols(base,
              [k \in 1..Len(SEVERITY_CLASSES) |->
                 LET sev_int == SeverityToInt(SEVERITY_CLASSES[k])
                 IN <<ClassifierProb(SEVERITY_CLASSES[k]),
                      IF sev_int \in Range(trained_classes)
                      THEN [i \in 1..df.n |->
                              lib.proba[i][IndexOf(trained_classes, sev_int) + 1]]
                      ELSE Broadcast(df, 0)>>])

---------------------------------------------------------------------------
(* classifier.py: ClassifierPipeline *)

\* the characters of a system name, cut where one of them is not a letter
\* or a digit
SystemChars(sys) ==
    IF sys = "Power Unit" THEN <<"Power", " ", "Unit">> ELSE <<sys>>

\* re.sub(r"[^a-zA-Z0-9]", "_", system) on those pieces
SafeSystem(chars) ==
    [k \in DOMAIN chars |-> IF chars[k] = " " THEN "_" ELSE chars[k]]

\* a faulty _model_path, to test C14 against: the driver code is left out
\* of the file name
ModelPathNoDriver(driver_code, sys) ==
    SafeSystem(SystemChars(sys)) \o <<".pkl">>

\* _model_path, below output_dir: f"{driver_code}_{safe_system}.pkl"
ModelPath(driver_code, sys) ==
    <<driver_code, "_">> \o SafeSystem(SystemChars(sys)) \o <<".pkl">>

\* open(path, "wb") and pickle.dump: the file at path now holds the bundle
WriteFile(fs, path, model_bundle) ==
    [p \in DOMAIN fs \cup {path} |-> IF p = path THEN model_bundle ELSE fs[p]]

\* load_model on the directory fs: None when there is no such file
LoadFile(fs, path) ==
    IF path \in DOMAIN fs THEN fs[path] ELSE NoBundle

\* combined of train_and_predict_system: the engineered feature columns
\* and the ensemble's label columns
Combined(merged_df, feature_cols, ensemble_result_df) ==
    LET all_feat_cols == EngineerCols(merged_df.cols, feature_cols)
        ensemble_cols ==
            SelectSeq(ensemble_result_df.cols,
                LAMBDA c : c \in {AnomalyLevel, AnomalyScoreSTD, AnomalyScoreMean})
        features ==
            Table(merged_df.n, all_feat_cols,
                  [c \in Range(all_feat_cols) |-> Telemetry])
    IN SetCols(features,
         [k \in 1..Len(ensemble_cols) |->
            <<ensemble_cols[k], ensemble_result_df.val[ensemble_cols[k]]>>])

\* a faulty enrich_health_entry, to test C3 against: maintenance_action is
\* not added
EnrichHealthEntryNoAction(entry, df, i) ==
    LET severity == RowGet(df, i, ClassifierSeverity, entry.level)
    IN [classifier_severity |-> severity,
        classifier_confidence |-> RowGet(df, i, ClassifierConfidence, 0),
        severity_probabilities |->
            [sev \in Range(SEVERITY_CLASSES) |->
                RowGet(df, i, ClassifierProb(sev), 0)]]
       @@ entry

\* enrich_health_entry: the keys it adds to the entry
EnrichHealthEntry(entry, df, i) ==
    LET severity == RowGet(df, i, ClassifierSeverity, entry.level)
    IN [classifier_severity |-> severity,
        classifier_confidence |-> RowGet(df, i, ClassifierConfidence, 0),
        severity_probabilities |->
            [sev \in Range(SEVERITY_CLASSES) |->
                RowGet(df, i, ClassifierProb(sev), 0)],
        maintenance_action |-> MaintenanceAction(severity)]
       @@ entry

---------------------------------------------------------------------------
(* run_f1_anomaly.py: the data *)

SYSTEM_FEATURES ==
    <<<<"Power Unit", <<<<"RPM">>, <<"nGear">>>>>>,
      <<"Brakes", <<<<"Brake">>, <<"Speed">>>>>>,
      <<"Drivetrain", <<<<"Throttle">>, <<"DRS">>>>>>,
      <<"Suspension", <<<<"Speed">>, <<"Distance">>>>>>,
      <<"Thermal", <<<<"HeartRate", "bpm">>, <<"CockpitTemp", "C">>,
                     <<"AirTemp", "C">>, <<"TrackTemp", "C">>>>>>,
      <<"Electronics", <<<<"DRS">>, <<"RPM">>, <<"nGear">>>>>>>>

Systems == {SYSTEM_FEATURES[k][1] : k \in DOMAIN SYSTEM_FEATURES}

\* SYSTEM_FEATURES[system]
FeaturesOf(sys) ==
    LET k == CHOOSE k \in DOMAIN SYSTEM_FEATURES : SYSTEM_FEATURES[k][1] = sys
    IN SYSTEM_FEATURES[k][2]

RECURSIVE Flatten(_)
Flatten(ss) == IF ss = <<>> THEN <<>> ELSE Head(ss) \o Flatten(Tail(ss))

\* the columns of a row of load_car_race_data, for a race file that holds
\* the telemetry channels `present`
CarColumns(present) ==
    <<<<"race">>, <<"driver">>>>
    \o Flatten([k \in 1..5 |->
          LET col == <<"RPM", "Speed", "Throttle", "nGear", "Distance">>[k]
          IN IF col \in present
             THEN <<<<col, "mean">>, <<col, "max">>, <<col, "std">>>>
             ELSE <<>>])
    \o (IF "Brake" \in present THEN <<<<"Brake", "pct">>>> ELSE <<>>)
    \o (IF "DRS" \in present THEN <<<<"DRS", "pct">>>> ELSE <<>>)
    \o (IF "TyreLife" \in present THEN <<<<"TyreLife", "max">>>> ELSE <<>>)
    \o <<<<"samples">>>>

RECURSIVE Dedupe(_, _)
\* "Deduplicate preserving order"
Dedupe(cols, seen) ==
    IF cols = <<>> THEN <<>>
    ELSE IF Head(cols) \in seen THEN Dedupe(Tail(cols), seen)
    ELSE <<Head(cols)>> \o Dedupe(Tail(cols), seen \cup {Head(cols)})

\* the columns of merged_df one system's features match
MatchingCols(df_cols, raw_features) ==
    Dedupe(Flatten([k \in 1..Len(raw_features) |->
                SelectSeq(df_cols,
                    LAMBDA c : StartsWith(c, raw_features[k])
                               /\ c # <<"driver">> /\ c # <<"race">>)]),
           {})

\* system_col_map of run_ensemble_per_system, in the order of the dict
SystemColMap(df_cols) ==
    SelectSeq([k \in 1..Len(SYSTEM_FEATURES) |->
                 <<SYSTEM_FEATURES[k][1],
                   MatchingCols(df_cols, SYSTEM_FEATURES[k][2])>>],
              LAMBDA e : e[2] # <<>>)

\* system_col_map.get(system, [])
ColMapGet(map, sys) ==
    IF \E k \in DOMAIN map : map[k][1] = sys
    THEN map[CHOOSE k \in DOMAIN map : map[k][1] = sys][2]
    ELSE <<>>

\* subset = merged_df[feature_cols]: the feature matrix the ensemble gets
Subset(merged_df, feature_cols) ==
    Table(merged_df.n, feature_cols,
          [c \in Range(feature_cols) |-> Telemetry])

---------------------------------------------------------------------------
(* run_f1_anomaly.py: compute_system_health and run_driver *)

\* max(cols, key): the first of the columns with the largest key, keys[k]
\* being the key of cols[k]
FirstMax(cols, keys) ==
    cols[CHOOSE k \in DOMAIN cols :
            /\ \A j \in DOMAIN cols : keys[j] <= keys[k]
            /\ \A j \in 1..(k - 1) : keys[j] < keys[k]]

\* feature_vals of compute_system_health: for each feature of the system the
\* "_mean" column whose value it ends up holding
FeatureVals(sys, df_cols) ==
    LET feats == IF sys \in Systems THEN FeaturesOf(sys) ELSE <<>>
        hits == [feat \in Range(feats) |->
                    SelectSeq(df_cols,
                        LAMBDA c : StartsWith(c, feat) /\ EndsWith(c, "mean"))]
    IN [feat \in {f \in Range(feats) : hits[f] # <<>>} |->
            hits[feat][Len(hits[feat])]]

\* a faulty health, to test C20 against: 100 - score_mean * 100, as the
\* comment above the statement has it
HealthOfComment(score_mean) ==
    Max(10, Min(100, (100 * Scale - 100 * score_mean) \div Scale))

\* health of compute_system_health: max(10, min(100, int(100 - score_mean * 80)))
Health(score_mean) == Max(10, Min(100, (100 * Scale - 80 * score_mean) \div Scale))

\* vote_count of compute_system_health
VoteCount(result_df, i) ==
    Count([k \in DOMAIN result_df.cols |->
              /\ EndsWith(result_df.cols[k], "Anomaly")
              /\ RowGet(result_df, i, result_df.cols[k], 0) = 1])

\* total_models of compute_system_health
TotalModels(result_df) ==
    Count([k \in DOMAIN result_df.cols |-> EndsWith(result_df.cols[k], "Anomaly")])

\* top_model of compute_system_health
TopModel(result_df, i) ==
    LET score_cols == ScoreColsOf(result_df)
    IN IF score_cols = <<>> THEN ""
       ELSE ModelOf(FirstMax(score_cols,
                             [k \in DOMAIN score_cols |->
                                 RowGet(result_df, i, score_cols[k], 0)]))

\* the entry compute_system_health builds for race i of one system;
\* feature_vals is FeatureVals of the system
HealthEntry(result_df, feature_vals, i) ==
    LET vote_count == VoteCount(result_df, i)
        total_models == TotalModels(result_df)
        score_mean == RowGet(result_df, i, AnomalyScoreMean, 0)
        entry ==
            [health |-> Health(score_mean),
             level |-> RowGet(result_df, i, AnomalyLevel, "normal"),
             vote_severity |-> SeverityFromVotes(vote_count, total_models),
             score_mean |-> score_mean,
             voting_score |-> RowGet(result_df, i, VotingScore, 0),
             vote_count |-> vote_count,
             total_models |-> total_models,
             top_model |-> TopModel(result_df, i),
             features |-> feature_vals]
    IN IF HasCol(result_df, ClassifierSeverity)
       THEN EnrichHealthEntry(entry, result_df, i)
       ELSE entry

\* compute_system_health: per_race
ComputeSystemHealth(system_results, merged_df) ==
    LET feature_vals == [sys \in DOMAIN system_results |->
                            FeatureVals(sys, merged_df.cols)]
    IN [i \in 1..merged_df.n |->
        [race |-> i,
         systems |->
            [sys \in {x \in DOMAIN system_results : i <= system_results[x].n} |->
                HealthEntry(system_results[sys], feature_vals[sys], i)]]]

RECURSIVE SumHealth(_, _)
\* sum(system_healths) over the systems in S
SumHealth(systems, S) ==
    IF S = {} THEN 0
    ELSE LET x == CHOOSE x \in S : TRUE
         IN systems[x].health + SumHealth(systems, S \ {x})

\* a faulty overall_health, to test C4 against: the sum of the system
\* healths where the code takes their mean
OverallHealthSum(systems) ==
    IF DOMAIN systems = {} THEN 0
    ELSE SumHealth(systems, DOMAIN systems)

\* int(np.mean(system_healths)) if system_healths else 0
OverallHealth(systems) ==
    IF DOMAIN systems = {} THEN 0
    ELSE SumHealth(systems, DOMAIN systems) \div Cardinality(DOMAIN systems)

\* overall_level of run_driver: the worst level among the systems
OverallLevel(systems) ==
    LET levels == {systems[x].level : x \in DOMAIN systems}
    IN IF "critical" \in levels THEN "critical"
       ELSE IF "high" \in levels THEN "high"
       ELSE IF "medium" \in levels THEN "medium"
       ELSE IF "low" \in levels THEN "low"
       ELSE "normal"

\* what run_driver returns for a non-empty merged dataset
DriverRecord(per_race_health) ==
    LET latest == IF per_race_health # <<>>
                  THEN per_race_health[Len(per_race_health)].systems
                  ELSE <<>>
    IN [empty |-> FALSE,
        overall_health |-> OverallHealth(latest),
        overall_level |-> OverallLevel(latest),
        last_race |-> Len(per_race_health),
        races |-> per_race_health,
        race_count |-> Len(per_race_health)]

---------------------------------------------------------------------------
(* What the libraries return: bounded families *)

\* The rows a detector scores as outlying.  A dataset with an injected
\* outlier race (merged_df.outlier > 0) is seen by a detector as flat or
\* with that race standing out; on any other dataset a detector picks any
\* rows, up to MaxOutliers of them.
ElevatedSets(merged_df) ==
    IF merged_df.outlier = 0
    THEN {E \in SUBSET (1..merged_df.n) : Cardinality(E) <= MaxOutliers}
    ELSE {{}, {merged_df.outlier}}

\* IsolationForest / SGDOneClassSVM: the decision function is negative on
\* the outlying rows; or fit_predict raises
SklearnOutputs(merged_df) ==
    {[ok |-> FALSE]}
    \cup {[ok |-> TRUE,
           decision |-> [i \in 1..merged_df.n |-> IF i \in E THEN -1 ELSE 1]] :
          E \in ElevatedSets(merged_df)}

\* NearestNeighbors: a larger average distance on the outlying rows, the
\* other rows all at one distance or (on a dataset with an injected outlier)
\* spread over a few close ones; or raises
KnnOutputs(merged_df) ==
    {[ok |-> FALSE]}
    \cup {[ok |-> TRUE,
           dist |-> [i \in 1..merged_df.n |->
                       IF i \in E THEN 40
                       ELSE IF merged_df.outlier = 0 THEN 10
                       ELSE 10 + (i % 3)]] :
          E \in ElevatedSets(merged_df)}

\* PCA: a larger reconstruction error on the outlying rows; or raises, as it
\* must when it is asked for more components than it can fit
PcaOutputs(merged_df, nfeat) ==
    {[ok |-> FALSE]}
    \cup (IF PcaFits(merged_df.n, nfeat)
          THEN {[ok |-> TRUE,
                 error |-> [i \in 1..merged_df.n |-> IF i \in E THEN 4 ELSE 1]] :
                E \in ElevatedSets(merged_df)}
          ELSE {})

\* the confidence LightGBM gives its prediction
ConfLevels == {(6 * Scale) \div 10, Scale}

\* LightGBM fitted on the classes of the bundle: it predicts the label it
\* was shown (or its lowest class for a label it never saw), or one class
\* throughout; the rest of the probability goes to another trained class
ModelOutputs(df, model_bundle) ==
    LET K == model_bundle.classes
        y_all == EncodeLabels(df.val[AnomalyLevel])
        lowest == CHOOSE k \in K : \A j \in K : k <= j
        other(k) == IF K = {k} THEN k
                    ELSE CHOOSE j \in K \ {k} : \A m \in K \ {k} : j <= m
        fitted == [i \in 1..df.n |-> IF y_all[i] \in K THEN y_all[i] ELSE lowest]
        classes_ == TrainedClasses(model_bundle)
        proba(preds, conf) ==
            [i \in 1..df.n |->
                [j \in 1..Len(classes_) |->
                    IF classes_[j] = preds[i] THEN conf
                    ELSE IF classes_[j] = other(preds[i]) THEN Scale - conf
                    ELSE 0]]
    IN {[preds |-> preds, proba |-> proba(preds, conf)] :
          preds \in {fitted} \cup {[i \in 1..df.n |-> k] : k \in K},
          conf \in ConfLevels}

---------------------------------------------------------------------------
(* The state machine: run_driver for one driver *)

\* merged_df as the loaders leave it: n races, the columns of a race file
\* with the channels `present`, and the injected outlier race (0: none)
Merged(n, present, outlier) ==
    [n |-> n, cols |-> CarColumns(present), outlier |-> outlier]

InitWith(datasets, lgbm_values) ==
    /\ pc = "start"
    /\ lgbm \in lgbm_values
    /\ merged \in datasets
    /\ colmap = <<>>
    /\ queue = <<>>
    /\ system = ""
    /\ raw = EmptyTable
    /\ ran = <<>>
    /\ failed = {}
    /\ normAt = <<>>
    /\ normCols = <<>>
    /\ results = <<>>
    /\ raised = {}
    /\ enriched = <<>>
    /\ outcome = <<>>
    /\ output = [empty |-> TRUE]
    /\ args = [driver_code |-> "NOR"]
    /\ ret = <<>>
    /\ files = <<>>
    /\ saved = <<>>

\* one race file layout with one system that runs (Drivetrain, on the three
\* Throttle columns) and one that matches a single column (Brakes)
OneSystem == {"Throttle", "Brake"}

\* datasets of up to MaxRaces races, LightGBM installed
Init == InitWith({Merged(n, OneSystem, 0) : n \in 0..MaxRaces}, {TRUE})

\* a season long enough to train the classifier on (MIN_TRAIN_SAMPLES races,
\* or one more), one race of it an outlier; LightGBM installed or not
InitSeason ==
    InitWith(UNION {{Merged(n, OneSystem, k) : k \in 1..n} :
                       n \in {MIN_TRAIN_SAMPLES, MIN_TRAIN_SAMPLES + 1}},
             BOOLEAN)

\* the end-to-end scenario: ScenarioRaces races, one of them an outlier
InitScenario ==
    InitWith({Merged(ScenarioRaces, OneSystem, k) : k \in 1..ScenarioRaces},
             {TRUE})

\* race file layouts: no system with two columns; one system; two systems
\* (Power Unit and Electronics, both on the three RPM columns)
Layouts == {{"Brake", "DRS"}, OneSystem, {"RPM"}}

\* a driver with too few races, or with enough of them and any layout
InitDriver ==
    InitWith({Merged(n, OneSystem, 0) : n \in 0..2}
             \cup {Merged(3, present, 1) : present \in Layouts},
             {TRUE})

\* a faulty run_ensemble_per_system, to test C16 against: the floor of three
\* races is missing and only an empty dataset is turned away
StartNoFloor ==
    /\ pc = "start"
    /\ IF merged.n = 0
       THEN /\ pc' = "done"
            /\ UNCHANGED <<colmap, queue>>
       ELSE /\ pc' = "ensemble"
            /\ colmap' = SystemColMap(merged.cols)
            /\ queue' = [k \in 1..Len(SystemColMap(merged.cols)) |->
                            SystemColMap(merged.cols)[k][1]]
    /\ UNCHANGED <<lgbm, merged, system, raw, ran, failed, normAt, normCols,
                   results, raised, enriched, outcome, output>>
    /\ UNCHANGED <<args, ret, files, saved>>

\* run_driver up to the per-system loop of run_ensemble_per_system
Start ==
    /\ pc = "start"
    /\ IF merged.n = 0
       THEN /\ pc' = "done"
            /\ UNCHANGED <<colmap, queue>>
       ELSE IF merged.n < 3
       THEN /\ pc' = "ensemble"
            /\ UNCHANGED <<colmap, queue>>
       ELSE /\ pc' = "ensemble"
            /\ colmap' = SystemColMap(merged.cols)
            /\ queue' = [k \in 1..Len(SystemColMap(merged.cols)) |->
                            SystemColMap(merged.cols)[k][1]]
    /\ UNCHANGED <<lgbm, merged, system, raw, ran, failed, normAt, normCols,
                   results, raised, enriched, outcome, output>>
    /\ UNCHANGED <<args, ret, files, saved>>

\* a faulty loop body of run_ensemble_per_system, to test C17 against: the
\* try is missing, and what one system raises ends run_driver
BeginSystemUncaught ==
    /\ pc = "ensemble"
    /\ queue # <<>>
    /\ LET sys == Head(queue)
           feature_cols == ColMapGet(colmap, sys)
       IN \/ /\ Len(feature_cols) < 2
             /\ queue' = Tail(queue)
             /\ UNCHANGED <<pc, system, raw, ran, failed, normAt, normCols, raised>>
          \/ /\ Len(feature_cols) >= 2
             /\ raised' = raised \cup {<<"ensemble", sys>>}
             /\ pc' = "aborted"
             /\ UNCHANGED <<queue, system, raw, ran, failed, normAt, normCols>>
          \/ /\ Len(feature_cols) >= 2
             /\ pc' = "sklearn"
             /\ system' = sys
             /\ raw' = Subset(merged, feature_cols)
             /\ ran' = <<>>
             /\ failed' = {}
             /\ normAt' = <<>>
             /\ normCols' = <<>>
             /\ UNCHANGED <<queue, raised>>
    /\ UNCHANGED <<lgbm, merged, colmap, results, enriched, outcome, output>>
    /\ UNCHANGED <<args, ret, files, saved>>

\* the head of the loop body of run_ensemble_per_system: the system is
\* skipped for want of features, or preparing its matrix raises, or the
\* ensemble starts on it
BeginSystem ==
    /\ pc = "ensemble"
    /\ queue # <<>>
    /\ LET sys == Head(queue)
           feature_cols == ColMapGet(colmap, sys)
       IN \/ /\ Len(feature_cols) < 2
             /\ queue' = Tail(queue)
             /\ UNCHANGED <<pc, system, raw, ran, failed, normAt, normCols, raised>>
          \/ /\ Len(feature_cols) >= 2
             /\ raised' = raised \cup {<<"ensemble", sys>>}
             /\ queue' = Tail(queue)
             /\ UNCHANGED <<pc, system, raw, ran, failed, normAt, normCols>>
          \/ /\ Len(feature_cols) >= 2
             /\ pc' = "sklearn"
             /\ system' = sys
             /\ raw' = Subset(merged, feature_cols)
             /\ ran' = <<>>
             /\ failed' = {}
             /\ normAt' = <<>>
             /\ normCols' = <<>>
             /\ UNCHANGED <<queue, raised>>
    /\ UNCHANGED <<lgbm, merged, colmap, results, enriched, outcome, output>>
    /\ UNCHANGED <<args, ret, files, saved>>

\* one turn of the loop over algorithms in sklearn_models
RunSklearnModel ==
    /\ pc = "sklearn"
    /\ Len(ran) < 2
    /\ \E lib \in SklearnOutputs(merged) :
        LET name == <<"IsolationForest", "OneClassSVM">>[Len(ran) + 1]
        IN /\ raw' = SklearnModel(raw, name, lib)
           /\ ran' = Append(ran, name)
           /\ failed' = IF lib.ok THEN failed ELSE failed \cup {name}
    /\ UNCHANGED <<pc, lgbm, merged, colmap, queue, system, normAt, normCols,
                   results, raised, enriched, outcome, output>>
    /\ UNCHANGED <<args, ret, files, saved>>

\* the rest of sklearn_models: the KNN score, then the normalization
FinishSklearnModels ==
    /\ pc = "sklearn"
    /\ Len(ran) = 2
    /\ \E lib \in KnnOutputs(merged) :
        LET with_knn == AddKnnDistanceScore(raw, lib)
        IN /\ raw' = NormalizeStep(with_knn)
           /\ ran' = Append(ran, "KNN")
           /\ failed' = IF lib.ok /\ raw.n > 2 THEN failed ELSE failed \cup {"KNN"}
           /\ normAt' = Append(ran, "KNN")
           /\ normCols' = ScoreColsOf(with_knn)
    /\ pc' = "autoencoder"
    /\ UNCHANGED <<lgbm, merged, colmap, queue, system, results, raised,
                   enriched, outcome, output>>
    /\ UNCHANGED <<args, ret, files, saved>>

\* run_autoencoder, which ends run_anomaly_detection_models
RunAutoencoderStep ==
    /\ pc = "autoencoder"
    /\ \E lib \in PcaOutputs(merged, Len(ColMapGet(colmap, system))) :
        /\ raw' = RunAutoencoder(raw, lib)
        /\ ran' = Append(ran, "Autoencoder")
        /\ failed' = IF lib.ok THEN failed ELSE failed \cup {"Autoencoder"}
    /\ pc' = "insights"
    /\ UNCHANGED <<lgbm, merged, colmap, queue, system, normAt, normCols,
                   results, raised, enriched, outcome, output>>
    /\ UNCHANGED <<args, ret, files, saved>>

\* the end of the loop body: anomaly_insights, results[system] = raw_results
Aggregate ==
    /\ pc = "insights"
    /\ results' = (system :> AnomalyInsights(raw)) @@ results
    /\ queue' = Tail(queue)
    /\ pc' = "ensemble"
    /\ UNCHANGED <<lgbm, merged, colmap, system, raw, ran, failed, normAt,
                   normCols, raised, enriched, outcome, output>>
    /\ UNCHANGED <<args, ret, files, saved>>

\* the systems the loop of run_classifier_per_system has still to visit:
\* system_results.items() in the order the ensemble loop stored them
Pending ==
    SelectSeq([k \in 1..Len(colmap) |-> colmap[k][1]],
              LAMBDA s : s \in DOMAIN results /\ s \notin DOMAIN enriched)

\* the loop body of run_classifier_per_system: train_and_predict_system
\* returns (after training, or after train returned None), or it raises
ClassifySystem ==
    /\ pc = "ensemble"
    /\ queue = <<>>
    /\ Pending # <<>>
    /\ LET sys == Head(Pending)
           result_df == results[sys]
           combined == Combined(merged, ColMapGet(colmap, sys), result_df)
           model_bundle == Train(combined, AnomalyLevel, lgbm)
       IN \/ /\ enriched' = (sys :> result_df) @@ enriched
             /\ outcome' = (sys :> "raised") @@ outcome
             /\ raised' = raised \cup {<<"classifier", sys>>}
             /\ UNCHANGED <<files, saved>>
          \/ /\ model_bundle.none
             /\ enriched' = (sys :> Predict(combined, model_bundle, <<>>)) @@ enriched
             /\ outcome' = (sys :> "fallback") @@ outcome
             /\ UNCHANGED <<raised, files, saved>>
          \/ /\ ~model_bundle.none
             /\ \E lib \in ModelOutputs(combined, model_bundle) :
                   enriched' = (sys :> Predict(combined, model_bundle, lib)) @@ enriched
             /\ outcome' = (sys :> "trained") @@ outcome
             /\ files' = WriteFile(files, ModelPath(args.driver_code, sys),
                                   model_bundle)
             /\ saved' = Append(saved, <<args.driver_code, sys, model_bundle>>)
             /\ UNCHANGED raised
    /\ UNCHANGED <<pc, lgbm, merged, colmap, queue, system, raw, ran, failed,
                   normAt, normCols, results, output>>
    /\ UNCHANGED <<args, ret>>

\* the rest of run_driver: compute_system_health and the driver's record
Finish ==
    /\ pc = "ensemble"
    /\ queue = <<>>
    /\ Pending = <<>>
    /\ output' = DriverRecord(ComputeSystemHealth(enriched, merged))
    /\ pc' = "done"
    /\ UNCHANGED <<lgbm, merged, colmap, queue, system, raw, ran, failed,
                   normAt, normCols, results, raised, enriched, outcome>>
    /\ UNCHANGED <<args, ret, files, saved>>

Next ==
    \/ Start
    \/ BeginSystem
    \/ RunSklearnModel
    \/ FinishSklearnModels
    \/ RunAutoencoderStep
    \/ Aggregate
    \/ ClassifySystem
    \/ Finish

Spec == Init /\ [][Next]_vars

SpecSeason == InitSeason /\ [][Next]_vars

SpecScenario == InitScenario /\ [][Next]_vars

SpecDriver == InitDriver /\ [][Next]_vars

---------------------------------------------------------------------------
(* Functions called on their own *)

\* the state before one function is called with arguments drawn from calls
InitCall(calls) ==
    /\ pc = "call"
    /\ lgbm = TRUE
    /\ merged = Merged(0, {}, 0)
    /\ colmap = <<>>
    /\ queue = <<>>
    /\ system = ""
    /\ raw = EmptyTable
    /\ ran = <<>>
    /\ failed = {}
    /\ normAt = <<>>
    /\ normCols = <<>>
    /\ results = <<>>
    /\ raised = {}
    /\ enriched = <<>>
    /\ outcome = <<>>
    /\ output = [empty |-> TRUE]
    /\ args \in calls
    /\ ret = <<>>
    /\ files = <<>>
    /\ saved = <<>>

\* the call returns value
Return(value) ==
    /\ pc' = "returned"
    /\ ret' = value
    /\ UNCHANGED <<lgbm, merged, colmap, queue, system, raw, ran, failed,
                   normAt, normCols, results, raised, enriched, outcome,
                   output, args, files, saved>>

\* a table of n races with the three Throttle columns and the two columns
\* of each detector in D: flag 1 and score 0.9 on the races in E, flag 0 and
\* score 0.1 on the others
DetectorTable(n, D, E) ==
    LET base == Subset(Merged(n, OneSystem, 0),
                       <<<<"Throttle", "mean">>, <<"Throttle", "max">>,
                         <<"Throttle", "std">>>>)
        names == SelectSeq(<<"IsolationForest", "OneClassSVM", "KNN", "Autoencoder">>,
                           LAMBDA d : d \in D)
    IN SetCols(base,
         Flatten([k \in 1..Len(names) |->
            <<<<AnomalyCol(names[k]), [i \in 1..n |-> IF i \in E THEN 1 ELSE 0]>>,
              <<ScoreCol(names[k]),
                [i \in 1..n |-> IF i \in E THEN (9 * Scale) \div 10
                                 ELSE Scale \div 10]>>>>]))

\* the detector sets of the tables anomaly_insights is called on: KNN or
\* not, and none or at least two of the three detectors whose scores it
\* takes the deviation of (the deviation of a single score is NaN)
InsightsDetectorSets ==
    {D \in SUBSET {"IsolationForest", "OneClassSVM", "KNN", "Autoencoder"} :
        Cardinality(D \ {"KNN"}) # 1}

\* tables for anomaly_insights: up to MaxRaces races (at least one when it
\* has quantiles to take)
InitInsights ==
    InitCall({[df |-> DetectorTable(n, D, E)] :
                n \in 0..MaxRaces, D \in InsightsDetectorSets,
                E \in {X \in SUBSET (1..MaxRaces) : Cardinality(X) <= MaxOutliers}}
             \ {[df |-> DetectorTable(0, D, E)] :
                D \in InsightsDetectorSets \ {{}, {"KNN"}},
                E \in SUBSET (1..MaxRaces)})

CallAnomalyInsights ==
    /\ pc = "call"
    /\ Return(AnomalyInsights(args.df))

SpecInsights == InitInsights /\ [][CallAnomalyInsights]_vars

\* the labels of a table given to train: all one class, all unknown to
\* SEVERITY_TO_INT, one row unknown and the rest normal, two classes in
\* turn, or three
LabelPatterns == {"one", "unknown", "mixed", "two", "three"}

LabelsOf(n, pattern) ==
    [i \in 1..n |->
        CASE pattern = "one" -> "high"
          [] pattern = "unknown" -> "severe"
          [] pattern = "mixed" -> IF i = 1 THEN "severe" ELSE "normal"
          [] pattern = "two" -> IF i % 2 = 1 THEN "normal" ELSE "critical"
          [] OTHER -> <<"low", "medium", "normal">>[(i % 3) + 1]]

\* the Anomaly_Score_STD of such a table: all rows alike, or all different
StdPatterns == {"tied", "rising"}

StdOf(n, pattern) ==
    [i \in 1..n |-> IF pattern = "tied" THEN Scale \div 10 ELSE (Scale \div 10) * i]

\* a table as train_and_predict_system combines it: n rows, the feature
\* columns, then those of Anomaly_Level, Anomaly_Score_STD and
\* Anomaly_Score_Mean that `with` names
TrainTable(n, feature_cols, with, labels, std) ==
    SetCols(Subset(Merged(n, OneSystem, 0), feature_cols),
        (IF "level" \in with
         THEN <<<<AnomalyLevel, LabelsOf(n, labels)>>>> ELSE <<>>)
        \o (IF "std" \in with
            THEN <<<<AnomalyScoreSTD, StdOf(n, std)>>>> ELSE <<>>)
        \o (IF "mean" \in with
            THEN <<<<AnomalyScoreMean, [i \in 1..n |-> Scale \div 2]>>>> ELSE <<>>))

\* the feature columns of such a table: the engineered Throttle columns, or
\* none
FeatureChoices ==
    {<<>>,
     EngineerCols(CarColumns(OneSystem),
                  <<<<"Throttle", "mean">>, <<"Throttle", "max">>,
                    <<"Throttle", "std">>>>)}

\* tables for train: up to MIN_TRAIN_SAMPLES + 2 rows
TrainTables ==
    {TrainTable(n, f, w, l, d) :
        n \in 0..(MIN_TRAIN_SAMPLES + 2), f \in FeatureChoices,
        w \in {{"level", "std", "mean"}, {"level", "mean"}, {"std", "mean"}},
        l \in LabelPatterns, d \in StdPatterns}

InitTrain ==
    InitCall({[df |-> df, label_col |-> AnomalyLevel, lgbm_available |-> b] :
                df \in TrainTables, b \in BOOLEAN})

CallTrain ==
    /\ pc = "call"
    /\ Return(Train(args.df, args.label_col, args.lgbm_available))

SpecTrain == InitTrain /\ [][CallTrain]_vars

\* tables for predict: one or two rows, labelled
PredictTables ==
    {TrainTable(n, f, {"level", "std", "mean"}, l, "tied") :
        n \in 1..2, f \in FeatureChoices \ {<<>>}, l \in {"two", "three"}}

\* a bundle fitted on the classes K
BundleOn(df, K) ==
    [none |-> FALSE,
     classes |-> K,
     original_feature_names |-> RemoveLabelLeakage(df.cols),
     y_train |-> <<>>,
     sample_weight |-> <<>>,
     n_samples |-> MIN_TRAIN_SAMPLES]

\* predict on a bundle fitted on any classes; model is what the fitted
\* model returns on the table
InitPredict ==
    InitCall(UNION {{[df |-> df, model_bundle |-> BundleOn(df, K), model |-> m] :
                        m \in ModelOutputs(df, BundleOn(df, K))} :
                    df \in PredictTables,
                    K \in (SUBSET (0..(Len(SEVERITY_CLASSES) - 1))) \ {{}}})

CallPredict ==
    /\ pc = "call"
    /\ Return(Predict(args.df, args.model_bundle, args.model))

SpecPredict == InitPredict /\ [][CallPredict]_vars

\* DRIVERS: the configured driver codes
Drivers == {"NOR", "PIA"}

\* bundles as train builds them, told apart by their feature_names
SavedBundles ==
    {[none |-> FALSE, feature_names |-> f, n_samples |-> MIN_TRAIN_SAMPLES] :
        f \in {<<<<"Throttle", "mean">>, <<"Throttle", "max">>>>,
                <<<<"RPM", "mean">>, <<"season", "pct">>>>}}

\* an empty classifier directory, nothing called yet
InitModels == InitCall({[op |-> "none"]})

\* save_model(model_bundle, driver_code, system); returns the path
SaveModel ==
    /\ pc = "call"
    /\ Len(saved) < MaxSaves
    /\ \E d \in Drivers, sys \in Systems, b \in SavedBundles :
          /\ files' = WriteFile(files, ModelPath(d, sys), b)
          /\ saved' = Append(saved, <<d, sys, b>>)
          /\ args' = [op |-> "save_model", model_bundle |-> b,
                      driver_code |-> d, system |-> sys]
          /\ ret' = ModelPath(d, sys)
    /\ UNCHANGED <<pc, lgbm, merged, colmap, queue, system, raw, ran, failed,
                   normAt, normCols, results, raised, enriched, outcome, output>>

\* load_model(driver_code, system)
LoadModel ==
    /\ pc = "call"
    /\ \E d \in Drivers, sys \in Systems :
          /\ args' = [op |-> "load_model", driver_code |-> d, system |-> sys]
          /\ ret' = LoadFile(files, ModelPath(d, sys))
    /\ UNCHANGED <<pc, lgbm, merged, colmap, queue, system, raw, ran, failed,
                   normAt, normCols, results, raised, enriched, outcome, output,
                   files, saved>>

NextModels ==
    \/ SaveModel
    \/ LoadModel

SpecModels == InitModels /\ [][NextModels]_vars

---------------------------------------------------------------------------
(* Properties: what the documentation says of the health entries *)

\* the four base detectors of the ensemble
BaseDetectors == <<"IsolationForest", "OneClassSVM", "KNN", "Autoencoder">>

\* how many base detectors flagged race i in table df
BaseVotes(df, i) ==
    Count([k \in DOMAIN BaseDetectors |->
              RowGet(df, i, AnomalyCol(BaseDetectors[k]), 0) = 1])

\* the entry compute_system_health builds for race i from table df of sys
EntryOf(df, sys, i) == HealthEntry(df, FeatureVals(sys, merged.cols), i)

\* the documented vote mapping: 0 normal, 1 low, 2 medium, 3 high, 4+ critical
VoteLadder(votes) ==
    CASE votes = 0 -> "normal"
      [] votes = 1 -> "low"
      [] votes = 2 -> "medium"
      [] votes = 3 -> "high"
      [] OTHER -> "critical"

\* C1: in every health entry built from a table the ensemble and the
\* aggregator produced, vote_count is the number of base detectors that
\* flagged the race, total_models is 4, and vote_severity is the vote
\* mapping of that count.
C1_VotesCountBaseDetectors ==
    \A sys \in DOMAIN results : \A i \in 1..results[sys].n :
        LET e == EntryOf(results[sys], sys, i)
        IN /\ e.vote_count = BaseVotes(results[sys], i)
           /\ e.total_models = Len(BaseDetectors)
           /\ e.vote_severity = VoteLadder(BaseVotes(results[sys], i))

\* C2: for every system whose classifier stage completed (trained or
\* fallback), the entry built from what the stage returned has the same
\* voting_score, vote_count, total_models, vote_severity and top_model as
\* the entry built from the ensemble result alone.
C2_ClassifierKeepsVoteFields ==
    \A sys \in DOMAIN enriched :
        outcome[sys] \in {"trained", "fallback"} =>
            \A i \in 1..results[sys].n :
                LET before == EntryOf(results[sys], sys, i)
                    after == EntryOf(enriched[sys], sys, i)
                IN /\ after.voting_score = before.voting_score
                   /\ after.vote_count = before.vote_count
                   /\ after.total_models = before.total_models
                   /\ after.vote_severity = before.vote_severity
                   /\ after.top_model = before.top_model

\* the keys enrich_health_entry is documented to add
ClassifierKeys ==
    {"classifier_severity", "classifier_confidence",
     "severity_probabilities", "maintenance_action"}

\* entry e has the full classifier schema
HasClassifierFields(e) ==
    /\ ClassifierKeys \subseteq DOMAIN e
    /\ DOMAIN e.severity_probabilities = Range(SEVERITY_CLASSES)

\* the entries of the driver's record: <<system, entry>> for every race
OutputEntries ==
    IF pc = "done" /\ ~output.empty
    THEN UNION {{<<sys, output.races[i].systems[sys]>> :
                    sys \in DOMAIN output.races[i].systems} :
                i \in 1..Len(output.races)}
    ELSE {}

\* C3 (as documented): every entry of the output has the classifier fields,
\* whether the classifier stage trained, fell back or raised.
C3_EveryEntryHasClassifierFields ==
    \A x \in OutputEntries : HasClassifierFields(x[2])

\* C3 (as the code has it): an entry of the output has the classifier
\* fields, all four and all five probabilities, when the classifier stage
\* of its system completed (trained or fallback), and none of them when the
\* stage raised.
C3_ClassifierFieldsIffStageCompleted ==
    \A x \in OutputEntries :
        IF outcome[x[1]] = "raised"
        THEN ClassifierKeys \cap DOMAIN x[2] = {}
        ELSE HasClassifierFields(x[2])

\* C3 happens: a record whose entries come from a trained classifier
C3_Witness ==
    \E x \in OutputEntries :
        /\ outcome[x[1]] = "trained"
        /\ HasClassifierFields(x[2])
        /\ x[2].classifier_confidence > 0

\* the systems of the latest race of the driver's record
LatestSystems == output.races[Len(output.races)].systems

\* C4 (as documented): every record of a non-empty dataset has overall_health
\* in 10..100, also with fewer than 3 races or every system skipped.
C4_OverallHealthInRange ==
    (pc = "done" /\ ~output.empty) => output.overall_health \in 10..100

\* C4 (as the code has it): overall_health is in 10..100 when the latest
\* race has an entry for some system, and 0 when it has none (fewer than 3
\* races, or every system skipped or failed).
C4_OverallHealthInRangeOrZero ==
    (pc = "done" /\ ~output.empty) =>
        IF DOMAIN LatestSystems = {}
        THEN output.overall_health = 0
        ELSE output.overall_health \in 10..100

\* C4 happens: a record whose latest race has two systems
C4_Witness ==
    /\ pc = "done"
    /\ ~output.empty
    /\ Cardinality(DOMAIN LatestSystems) = 2
    /\ output.overall_health \in 10..100

\* the races of table df labelled medium or above
MediumOrAbove(df) ==
    {i \in 1..df.n : df.val[AnomalyLevel][i] \in {"medium", "high", "critical"}}

\* C5 (as documented): in the scenario every race but the injected outlier
\* is labelled normal or low.
C5_OnlyOutlierAboveLow ==
    \A sys \in DOMAIN results : MediumOrAbove(results[sys]) \subseteq {merged.outlier}

\* C5 (as the code has it): at least a quarter of the races, so 5 of the 20,
\* are labelled medium or above whatever the detectors found, hence at least
\* 4 races that are not the outlier.
C5_QuarterMediumOrAbove ==
    \A sys \in DOMAIN results :
        4 * Cardinality(MediumOrAbove(results[sys])) >= results[sys].n

\* C5 happens: all four detectors flag the outlier race and only it
C5_Witness ==
    \E sys \in DOMAIN results :
        /\ results[sys].n = ScenarioRaces
        /\ \A i \in 1..results[sys].n :
              BaseVotes(results[sys], i) = IF i = merged.outlier THEN 4 ELSE 0
        /\ results[sys].val[AnomalyLevel][merged.outlier] \in {"high", "critical"}

\* table df has none of the detectors' flag and score columns
NoDetectorColumns(df) ==
    \A d \in Range(BaseDetectors) :
        ~HasCol(df, AnomalyCol(d)) /\ ~HasCol(df, ScoreCol(d))

\* C11: on a table with none of the detector columns anomaly_insights
\* returns the table with Anomaly_Level "normal" on every row appended and
\* nothing else added or changed.
C11_NoColumnsAllNormal ==
    (pc = "returned" /\ NoDetectorColumns(args.df)) =>
        /\ ret.n = args.df.n
        /\ ret.cols = Append(args.df.cols, AnomalyLevel)
        /\ \A i \in 1..ret.n : ret.val[AnomalyLevel][i] = "normal"
        /\ \A c \in Range(args.df.cols) : ret.val[c] = args.df.val[c]

\* C11 happens: anomaly_insights returned from a table of several races
\* without detector columns
C11_Witness ==
    /\ pc = "returned"
    /\ NoDetectorColumns(args.df)
    /\ args.df.n >= 2
    /\ ret.val[AnomalyLevel] = [i \in 1..args.df.n |-> "normal"]

\* the length of the longest score column _normalize_scores is called on
MaxScores == 4

\* the raw scores a detector gives, in the detector's own unit
RawScores == {-3, 0, 1, 8}

\* tables for _normalize_scores: a flag column, a score column of any raw
\* scores and a score column of one repeated score
NormalizeTables ==
    {Table(Len(scores),
           <<AnomalyCol("IsolationForest"), ScoreCol("IsolationForest"),
             ScoreCol("KNN")>>,
           (AnomalyCol("IsolationForest") :> [i \in DOMAIN scores |-> 0])
           @@ (ScoreCol("IsolationForest") :> scores)
           @@ (ScoreCol("KNN") :> [i \in DOMAIN scores |-> 8])) :
        scores \in UNION {[1..n -> RawScores] : n \in 1..MaxScores}}

\* the calls of _normalize_scores: the score columns listed are those of
\* the table and one the table has not
InitNormalize ==
    InitCall({[df |-> df,
               score_cols |-> <<ScoreCol("IsolationForest"), ScoreCol("OneClassSVM"),
                                ScoreCol("KNN")>>] :
                df \in NormalizeTables})

CallNormalizeScores ==
    /\ pc = "call"
    /\ Return(NormalizeScores(args.df, args.score_cols))

SpecNormalize == InitNormalize /\ [][CallNormalizeScores]_vars

\* the most rows of a matrix estimate_contamination is called on
MaxMatrixRows == 5

\* the values of the first column of such a matrix
CellValues == {0, 1, 9}

\* a second column of n rows: 0 throughout, or 9 in row k and 0 elsewhere
SpikeColumn(n, k) == [i \in 1..n |-> IF i = k THEN 9 ELSE 0]

\* the matrices estimate_contamination is called on: one or two columns
Matrices ==
    UNION {{<<first>> : first \in [1..n -> CellValues]}
           \cup {<<first, SpikeColumn(n, k)>> :
                    first \in [1..n -> CellValues], k \in 0..n} :
           n \in 1..MaxMatrixRows}

\* the calls of estimate_contamination: with the default method on every
\* matrix, with another method on those of one column
InitContamination ==
    InitCall({[data |-> data, method |-> "iqr"] : data \in Matrices}
             \cup {[data |-> data, method |-> "fixed"] :
                     data \in {m \in Matrices : Len(m) = 1}})

CallEstimateContamination ==
    /\ pc = "call"
    /\ Return(EstimateContamination(args.data, Len(args.data[1]), args.method))

SpecContamination == InitContamination /\ [][CallEstimateContamination]_vars

\* the results of one system over two races for compute_system_health:
\* without an Anomaly_Score_Mean column, or with one holding a and b
ScoredResults ==
    {Table(2, <<>>, <<>>)}
    \cup UNION {{Table(2, <<AnomalyScoreMean>>, (AnomalyScoreMean :> <<a, b>>)) :
                    b \in {0, Min(a + 1, Scale), Scale}} : a \in 0..Scale}

\* the calls of compute_system_health: the means are means of normalized
\* scores, between 0 and 1
InitHealth ==
    InitCall({[system_results |-> ("Drivetrain" :> result_df),
               merged_df |-> Merged(2, OneSystem, 0)] :
                result_df \in ScoredResults})

CallComputeSystemHealth ==
    /\ pc = "call"
    /\ Return(ComputeSystemHealth(args.system_results, args.merged_df))

SpecHealth == InitHealth /\ [][CallComputeSystemHealth]_vars

\* the most rows of a table run_autoencoder is called on
MaxPcaRows == 5

\* the reconstruction errors the PCA leaves on the rows
ReconstructionErrors == {0, 1, 4, 40}

\* the calls of run_autoencoder, on 3 races or more: the PCA raises or
\* leaves every row an error
InitAutoencoder ==
    InitCall({[raw_data |-> DetectorTable(n, {}, {}), lib |-> [ok |-> FALSE]] :
                n \in 3..MaxPcaRows}
             \cup UNION {{[raw_data |-> DetectorTable(n, {}, {}),
                           lib |-> [ok |-> TRUE, error |-> error]] :
                            error \in [1..n -> ReconstructionErrors]} :
                          n \in 3..MaxPcaRows})

CallRunAutoencoder ==
    /\ pc = "call"
    /\ Return(RunAutoencoder(args.raw_data, args.lib))

SpecAutoencoder == InitAutoencoder /\ [][CallRunAutoencoder]_vars

\* the telemetry channels of a race file that a system's features name
Channels == {"RPM", "Speed", "Throttle", "nGear", "Distance", "Brake", "DRS"}

\* the channels of a biometrics file that load_bio_race_data aggregates
BioChannels ==
    {<<"HeartRate", "bpm">>, <<"CockpitTemp", "C">>, <<"BattleIntensity">>,
     <<"AirTemp", "C">>, <<"TrackTemp", "C">>}

\* the columns of a row of load_bio_race_data, for biometrics files that
\* hold the channels `present`
BioColumns(present) ==
    <<<<"race">>, <<"driver">>>>
    \o Flatten([k \in 1..5 |->
          LET col == <<<<"HeartRate", "bpm">>, <<"CockpitTemp", "C">>,
                       <<"BattleIntensity">>, <<"AirTemp", "C">>,
                       <<"TrackTemp", "C">>>>[k]
          IN IF col \in present
             THEN <<col \o <<"mean">>, col \o <<"max">>>>
             ELSE <<>>])
    \o <<<<"bio", "samples">>>>

\* the columns of merge_telemetry: the car columns alone when either frame
\* is empty (<<>>), else the biometric columns joined on race and driver
MergeTelemetry(car_cols, bio_cols) ==
    IF car_cols = <<>> THEN car_cols
    ELSE IF bio_cols = <<>> THEN car_cols
    ELSE car_cols
         \o SelectSeq(bio_cols, LAMBDA c : c # <<"race">> /\ c # <<"driver">>)

\* the columns of the merged datasets: any channels in the race files with
\* full biometrics, and full race files with any biometrics or none
MergedLayouts ==
    {MergeTelemetry(CarColumns(c), BioColumns(BioChannels)) : c \in SUBSET Channels}
    \cup {MergeTelemetry(CarColumns(Channels), b) :
            b \in {<<>>} \cup {BioColumns(p) : p \in SUBSET BioChannels}}

\* the feature matrices run_ensemble_per_system hands to the ensemble, as
\* <<system, feature_cols>>: those of 2 columns or more
SystemMatrices ==
    {e \in UNION {Range(SystemColMap(cols)) : cols \in MergedLayouts} :
        Len(e[2]) >= 2}

\* the calls of _fast_reconstruction_error, on the matrix of a system for 3
\* races or more; lib is what the PCA does on a matrix of that shape
InitReconstruction ==
    InitCall(UNION {UNION {{[system |-> e[1],
                             data |-> [n |-> n, cols |-> e[2]],
                             lib |-> lib] :
                              lib \in PcaOutputs([n |-> n, outlier |-> 0],
                                                 Len(e[2]))} :
                            n \in 3..MaxPcaRows} :
                    e \in SystemMatrices})

CallFastReconstructionError ==
    /\ pc = "call"
    /\ Return(FastReconstructionError(args.data.n, args.lib))

SpecReconstruction == InitReconstruction /\ [][CallFastReconstructionError]_vars

\* the most rows of a table _add_knn_distance_score is called on
MaxKnnRows == 5

\* the average distances NearestNeighbors gives the rows
KnnDistances == {0, 10, 11, 40}

\* the calls of _add_knn_distance_score: NearestNeighbors is not reached on
\* fewer than 3 rows; on 3 and more it raises or gives every row a distance
InitKnn ==
    InitCall({[out_df |-> DetectorTable(n, {}, {}), lib |-> [ok |-> FALSE]] :
                n \in 1..MaxKnnRows}
             \cup UNION {{[out_df |-> DetectorTable(n, {}, {}),
                           lib |-> [ok |-> TRUE, dist |-> dist]] :
                            dist \in [1..n -> KnnDistances]} :
                          n \in 3..MaxKnnRows})

CallAddKnnDistanceScore ==
    /\ pc = "call"
    /\ Return(AddKnnDistanceScore(args.out_df, args.lib))

SpecKnn == InitKnn /\ [][CallAddKnnDistanceScore]_vars

\* the table train_and_predict_system hands to train for system sys of a
\* driver whose race files hold the channels present
CombinedFor(present, sys) ==
    LET merged_df == Merged(MIN_TRAIN_SAMPLES, present, 0)
        ensemble_result_df ==
            AnomalyInsights(DetectorTable(MIN_TRAIN_SAMPLES,
                {"IsolationForest", "OneClassSVM", "KNN", "Autoencoder"}, {}))
    IN Combined(merged_df, ColMapGet(SystemColMap(merged_df.cols), sys),
                ensemble_result_df)

\* the calls of _remove_label_leakage: for every race file layout, on the
\* table of every system the ensemble ran on (2 feature columns or more)
InitLeakage ==
    InitCall({[system |-> call[1], present |-> call[2],
               df |-> CombinedFor(call[2], call[1])] :
                call \in {c \in Systems \X (SUBSET Channels) :
                    Len(ColMapGet(SystemColMap(CarColumns(c[2])), c[1])) >= 2}})

CallRemoveLabelLeakage ==
    /\ pc = "call"
    /\ Return(RemoveLabelLeakage(args.df.cols))

SpecLeakage == InitLeakage /\ [][CallRemoveLabelLeakage]_vars

\* the most columns of a table _sanitize_feature_names is called on
MaxNames == 3

\* the column names of such a table, as their characters: 'a b', 'a_b',
\* 'a_b_1', 'a-b', 'ab'
ColumnNames ==
    {<<"a", " ", "b">>, <<"a", "_", "b">>, <<"a", "_", "b", "_", "1">>,
     <<"a", "-", "b">>, <<"a", "b">>}

InitSanitize ==
    InitCall({[df_cols |-> df_cols] :
                df_cols \in UNION {[1..n -> ColumnNames] : n \in 0..MaxNames}})

CallSanitizeFeatureNames ==
    /\ pc = "call"
    /\ Return(SanitizeFeatureNames(args.df_cols))

SpecSanitize == InitSanitize /\ [][CallSanitizeFeatureNames]_vars

---------------------------------------------------------------------------
(* Properties: what the documentation says of the classifier *)

\* the columns of the table in args that the aggregator produced
AggregatorCols ==
    {c \in Range(args.df.cols) :
        c \in {AnomalyLevel, AnomalyScoreSTD, AnomalyScoreMean}}

\* the columns of the table in args that come from the telemetry: the
\* system's feature columns, their derivatives and the season features
TelemetryCols ==
    LET df_cols == CarColumns(args.present)
    IN Range(EngineerCols(df_cols, ColMapGet(SystemColMap(df_cols), args.system)))

\* C24: of the columns handed to the classifier for a system, the leakage
\* filter removes every column the aggregator produced and keeps every
\* feature column that comes from the telemetry.
C24_LeakageFilterKeepsTelemetry ==
    pc = "returned" =>
        /\ AggregatorCols \cap Range(ret) = {}
        /\ TelemetryCols \subseteq Range(ret)

\* C22: _sanitize_feature_names returns as many names as it is given, in
\* their order, made of characters of [a-zA-Z0-9_] only and pairwise
\* distinct.
C22_SanitizedNamesDistinct ==
    pc = "returned" =>
        /\ Len(ret) = Len(args.df_cols)
        /\ \A k \in DOMAIN ret :
              /\ Range(ret[k]) \subseteq WordChars
              /\ Len(ret[k]) >= Len(args.df_cols[k])
              /\ \A j \in DOMAIN args.df_cols[k] :
                    args.df_cols[k][j] \in WordChars => ret[k][j] = args.df_cols[k][j]
        /\ \A k, l \in DOMAIN ret : k # l => ret[k] # ret[l]

\* the class 0..4 a label stands for, an unknown label counting as normal
ClassIndex(label) ==
    CASE label = "low" -> 1
      [] label = "medium" -> 2
      [] label = "high" -> 3
      [] label = "critical" -> 4
      [] OTHER -> 0

\* a precondition of train fails for the call in args
TrainPreconditionFails ==
    \/ ~args.lgbm_available
    \/ ~HasCol(args.df, args.label_col)
    \/ /\ HasCol(args.df, args.label_col)
       /\ Cardinality({ClassIndex(args.df.val[args.label_col][i]) :
                          i \in 1..args.df.n}) < 2
    \/ args.df.n < 6

\* C12: train returns None when LightGBM is unavailable, the label column
\* is missing, fewer than 2 classes are present after mapping the labels
\* (unknown labels as normal), or fewer than 6 rows are given.
C12_TrainReturnsNone ==
    (pc = "returned" /\ TrainPreconditionFails) => ret = NoBundle

\* C12 happens: LightGBM installed, 7 labelled rows, but one class only
\* once the unknown label counts as normal
C12_Witness ==
    /\ pc = "returned"
    /\ args.lgbm_available
    /\ args.df.n = 7
    /\ HasCol(args.df, args.label_col)
    /\ Range(args.df.val[args.label_col]) = {"severe", "normal"}
    /\ ret = NoBundle

\* the name of class c of 0..4
ClassName(c) == <<"normal", "low", "medium", "high", "critical">>[c + 1]

\* C13: predict on a bundle trained on classes within 0..4 returns all five
\* classifier_prob columns, full length: that of a trained class holds the
\* model's probability of that class, that of an absent class is 0.
C13_FiveProbabilityColumns ==
    pc = "returned" =>
        \A c \in 0..4 :
            LET K == args.model_bundle.classes
                col == <<"classifier", "prob", ClassName(c)>>
                place == Cardinality({j \in K : j <= c})
            IN /\ HasCol(ret, col)
               /\ DOMAIN ret.val[col] = 1..args.df.n
               /\ \A i \in 1..args.df.n :
                     ret.val[col][i] = IF c \in K THEN args.model.proba[i][place]
                                       ELSE 0

\* C13 happens: the model was trained without "medium" but with classes
\* on both sides of it, and splits a row between the lowest and the highest
C13_Witness ==
    /\ pc = "returned"
    /\ args.model_bundle.classes = {0, 1, 3, 4}
    /\ ret.val[<<"classifier", "prob", "medium">>] = [i \in 1..args.df.n |-> 0]
    /\ \E i \in 1..args.df.n :
          /\ ret.val[<<"classifier", "prob", "normal">>][i] > 0
          /\ ret.val[<<"classifier", "prob", "critical">>][i] > 0

\* the save_model calls so far that were for (driver_code, sys)
SavesFor(driver_code, sys) ==
    {k \in DOMAIN saved : saved[k][1] = driver_code /\ saved[k][2] = sys}

\* C14: load_model(driver_code, system) returns the bundle most recently
\* saved for that driver and system, its feature_names with it, whatever was
\* saved for others in between, and None when nothing was saved for it.
C14_LoadReturnsLastSaved ==
    args.op = "load_model" =>
        LET mine == SavesFor(args.driver_code, args.system)
        IN IF mine = {} THEN ret = NoBundle
           ELSE LET last == CHOOSE k \in mine : \A j \in mine : j <= k
                IN /\ ret = saved[last][3]
                   /\ ret.feature_names = saved[last][3].feature_names

\* C14 happens: a bundle was saved twice for one driver and system, with
\* different feature_names, and then loaded
C14_Witness ==
    /\ args.op = "load_model"
    /\ Len(saved) = 2
    /\ SavesFor(args.driver_code, args.system) = {1, 2}
    /\ saved[1][3].feature_names # saved[2][3].feature_names
    /\ ret.feature_names = saved[2][3].feature_names

\* the rows of table df whose confidence, 1 minus the percentile rank of
\* their Anomaly_Score_STD (ties sharing the average rank), is below 0.1
LowConfidence(df) ==
    LET std == df.val[AnomalyScoreSTD]
        below(i) == Cardinality({j \in 1..df.n : std[j] < std[i]})
        equal(i) == Cardinality({j \in 1..df.n : std[j] = std[i]})
    IN {i \in 1..df.n :
          \* 1 - (below + (equal + 1) / 2) / n < 1 / 10
          10 * (2 * df.n - (2 * below(i) + equal(i) + 1)) < 2 * df.n}

C29_FitWeightsPositive ==
    (pc = "returned" /\ ret # NoBundle) =>
        /\ DOMAIN ret.sample_weight = DOMAIN ret.y_train
        /\ \A i \in DOMAIN ret.sample_weight :
              /\ ret.sample_weight[i].num > 0
              /\ ret.sample_weight[i].den > 0

\* C28: whenever train reaches model fitting, the label vector passed to
\* fit, after the confidence filter dropped the low-confidence races, still
\* holds at least MIN_CLASSES distinct severity classes.
C28_FitSeesTwoClasses ==
    \A k \in DOMAIN saved :
        Cardinality({saved[k][3].y_train[i] : i \in DOMAIN saved[k][3].y_train})
            >= MIN_CLASSES

---------------------------------------------------------------------------
(* Properties: what the documentation says of the orchestrator *)

\* C16: on fewer than 3 races, none included, run_ensemble_per_system
\* returns no system result and no column map, raises nothing and runs no
\* detector.
C16_BelowFloorNothingRuns ==
    merged.n < 3 =>
        /\ results = <<>>
        /\ colmap = <<>>
        /\ queue = <<>>
        /\ ran = <<>>
        /\ failed = {}
        /\ raised = {}
        /\ pc \in {"start", "ensemble", "done"}

\* C16 happens: the run of a driver with 2 races has ended
C16_Witness ==
    /\ merged.n = 2
    /\ pc = "done"
    /\ results = <<>>
    /\ colmap = <<>>

\* what holds of the systems of the column map once one stage has failed
\* on some of them
FailuresContained ==
    \A k \in DOMAIN colmap :
        LET sys == colmap[k][1]
        IN /\ <<"ensemble", sys>> \in raised =>
                sys \notin DOMAIN results /\ sys \notin DOMAIN enriched
           /\ <<"classifier", sys>> \in raised =>
                /\ sys \in DOMAIN results
                /\ sys \in DOMAIN enriched
                /\ enriched[sys] = results[sys]
           /\ (pc = "done" /\ Len(colmap[k][2]) >= 2
                  /\ <<"ensemble", sys>> \notin raised) =>
                sys \in DOMAIN results /\ sys \in DOMAIN enriched

\* what one step does to the results stored so far: none is lost or changed,
\* and a step that fails on a system stores nothing but, in the classifier
\* stage, that system's ensemble result, and leaves the loop at its next
\* system
ResultsKept ==
    /\ \A sys \in DOMAIN results :
          sys \in DOMAIN results' /\ results'[sys] = results[sys]
    /\ \A sys \in DOMAIN enriched :
          sys \in DOMAIN enriched' /\ enriched'[sys] = enriched[sys]
    /\ \A sys \in Systems :
          /\ <<"ensemble", sys>> \in raised' \ raised =>
                /\ results' = results
                /\ enriched' = enriched
                /\ pc' = "ensemble"
                /\ queue = <<sys>> \o queue'
          /\ <<"classifier", sys>> \in raised' \ raised =>
                /\ results' = results
                /\ DOMAIN enriched' = DOMAIN enriched \cup {sys}
                /\ enriched'[sys] = results[sys]
                /\ pc' = "ensemble"
                /\ Pending = <<sys>> \o Pending'

\* C17: what one system raises, in the ensemble stage or in the classifier
\* stage, is caught in the loop over the systems: the other systems are
\* processed and keep their results, the failing system has no ensemble
\* result (ensemble stage) or keeps it (classifier stage), and the run goes
\* on with the system after it.
C17_SystemFailureContained ==
    /\ []FailuresContained
    /\ [][ResultsKept]_vars

\* C17 happens: the ensemble raised on one system, the classifier on
\* another, and the driver's run has ended
C17_Witness ==
    /\ pc = "done"
    /\ \E sys, other \in Systems :
          /\ <<"ensemble", sys>> \in raised
          /\ <<"classifier", other>> \in raised
          /\ DOMAIN results = {other}
          /\ enriched[other] = results[other]

\* the entries of per_race, each with the Anomaly_Score_Mean of its row (0
\* when the results have no such column)
ScoredEntries ==
    {[entry |-> ret[i].systems[sys],
      mean |-> RowGet(args.system_results[sys], i, AnomalyScoreMean, 0)] :
        i \in DOMAIN ret, sys \in DOMAIN args.system_results}

---------------------------------------------------------------------------
(* Properties: what the documentation says of the ensemble *)

\* C23: with the columns of all four detectors there, the
\* Reliability_Weighted_Score of a race is the sum of each detector's score
\* times that detector's own weight, the weights being 1.0, 0.9, 0.8 and 0.6
\* for IsolationForest, Autoencoder, KNN and OneClassSVM, each over 3.3.
C23_EachScoreTimesOwnWeight ==
    \A sys \in DOMAIN results :
        LET df == results[sys]
        IN (\A d \in Range(BaseDetectors) :
               HasCol(df, AnomalyCol(d)) /\ HasCol(df, ScoreCol(d))) =>
             \A i \in 1..df.n :
                df.val[ReliabilityWeightedScore][i] =
                    (10 * df.val[ScoreCol("IsolationForest")][i]
                     + 9 * df.val[ScoreCol("Autoencoder")][i]
                     + 8 * df.val[ScoreCol("KNN")][i]
                     + 6 * df.val[ScoreCol("OneClassSVM")][i]) \div 33

\* C23 happens: a race on which the four detectors give four different
\* scores has its weighted score
C23_Witness ==
    \E sys \in DOMAIN results : \E i \in 1..results[sys].n :
        /\ Cardinality({results[sys].val[ScoreCol(d)][i] :
                          d \in Range(BaseDetectors)}) = 4
        /\ results[sys].val[ReliabilityWeightedScore][i] > 0

\* the races of table df with the highest Enhanced_Anomaly_Score
TopRaces(df) ==
    {i \in 1..df.n :
        \A j \in 1..df.n :
            df.val[EnhancedAnomalyScore][j] <= df.val[EnhancedAnomalyScore][i]}

\* C25: on a table of one race or more with the detectors' columns,
\* anomaly_insights labels the race with the highest
\* Enhanced_Anomaly_Score medium, high or critical, so no result has every
\* race labelled normal or low.
C25_TopRaceMediumOrAbove ==
    \A sys \in DOMAIN results :
        LET df == results[sys]
        IN df.n >= 1 =>
             /\ TopRaces(df) # {}
             /\ \A i \in TopRaces(df) :
                   df.val[AnomalyLevel][i] \in {"medium", "high", "critical"}

\* C25 happens: a result whose top race is labelled medium while another
\* race, of a lower score, is labelled normal
C25_Witness ==
    \E sys \in DOMAIN results :
        LET df == results[sys]
        IN /\ df.n >= 3
           /\ \E i \in TopRaces(df) : df.val[AnomalyLevel][i] = "medium"
           /\ \E j \in (1..df.n) \ TopRaces(df) : df.val[AnomalyLevel][j] = "normal"

\* C26: the levels follow the score thresholds: no race is labelled high or
\* critical with an Enhanced_Anomaly_Score below sq[0.75], the threshold of
\* medium, and so none below the median sq[0.50].
C26_HighNeverBelowMediumThreshold ==
    \A sys \in DOMAIN results :
        LET df == results[sys]
            enhanced == df.val[EnhancedAnomalyScore]
        IN \A i \in 1..df.n :
              df.val[AnomalyLevel][i] \in {"high", "critical"} =>
                  /\ 20 * enhanced[i] >= Quantile20(enhanced, 15)
                  /\ 20 * enhanced[i] >= Quantile20(enhanced, 10)

\* C30: on every feature matrix of the pipeline (3 races or more, 2 feature
\* columns or more) the PCA component count max(2, min(n_features // 2, 10))
\* is at most min(n_rows, n_features), so that the PCA fits.
C30_PcaComponentsFit ==
    pc = "returned" =>
        PcaComponents(Len(args.data.cols))
            <= Min(args.data.n, Len(args.data.cols))

\* C27: Autoencoder_Anomaly is 1 on exactly the rows whose raw
\* reconstruction error is strictly above the Tukey fence Q3 + 1.5 IQR of
\* the raw errors, tied errors included: comparing percentile ranks with the
\* fraction of rows at or below the fence selects the same rows.
C27_RankFlagEqualsRawFlag ==
    (pc = "returned" /\ args.lib.ok) =>
        LET error == args.lib.error
            q1 == Quantile20(error, 5)
            q3 == Quantile20(error, 15)
            \* the fence multiplied by 40
            fence == 2 * q3 + 3 * (q3 - q1)
        IN \A i \in 1..ret.n :
              ret.val[AnomalyCol("Autoencoder")][i] = 1 <=> 40 * error[i] > fence

\* C27 happens: among tied errors, one row above the fence is flagged and
\* the rows tied at the fence or below it are not
C27_Witness ==
    /\ pc = "returned"
    /\ args.lib.ok
    /\ \E i, j, k \in 1..ret.n :
          /\ i # j
          /\ args.lib.error[i] = args.lib.error[j]
          /\ ret.val[AnomalyCol("Autoencoder")][i] = 0
          /\ ret.val[AnomalyCol("Autoencoder")][k] = 1

\* C21: KNN_Anomaly is 1 only on the rows whose average distance is
\* strictly above the Tukey fence Q3 + 1.5 IQR of the distances; when every
\* row has the same distance no row is flagged.
C21_KnnFlagStrictlyAboveFence ==
    (pc = "returned" /\ args.lib.ok) =>
        LET dist == args.lib.dist
            q1 == Quantile20(dist, 5)
            q3 == Quantile20(dist, 15)
            \* the fence multiplied by 40
            fence == 2 * q3 + 3 * (q3 - q1)
        IN /\ \A i \in 1..ret.n :
                 ret.val[AnomalyCol("KNN")][i] = 1 => 40 * dist[i] > fence
           /\ Cardinality(Range(dist)) = 1 =>
                 \A i \in 1..ret.n : ret.val[AnomalyCol("KNN")][i] = 0

\* the rows of matrix data with some value outside its column's fences
RowsOutsideFences(data) ==
    LET n == Len(data[1])
        \* column c's quartiles and IQR (0 replaced by 1), multiplied by 20
        q1(c) == Quantile20(data[c], 5)
        q3(c) == Quantile20(data[c], 15)
        iqr(c) == IF q3(c) = q1(c) THEN 20 ELSE q3(c) - q1(c)
    IN {i \in 1..n :
          \E c \in DOMAIN data :
              \/ 40 * data[c][i] < 2 * q1(c) - 3 * iqr(c)
              \/ 40 * data[c][i] > 2 * q3(c) + 3 * iqr(c)}

\* C19: estimate_contamination returns a value within 0.01..0.25, the
\* fraction of the rows with a value outside its column's IQR fences (an
\* IQR of 0 replaced by 1), clamped to that range.
C19_ContaminationInRange ==
    pc = "returned" =>
        LET n == Len(args.data[1])
            outside == Cardinality(RowsOutsideFences(args.data))
        IN /\ Scale \div 100 <= ret /\ ret <= Scale \div 4
           /\ args.method = "iqr" =>
                IF 100 * outside < n THEN ret = Scale \div 100
                ELSE IF 4 * outside > n THEN ret = Scale \div 4
                ELSE ret = (Scale * outside) \div n

\* C19 happens: one row of five is outside the fences of a column whose IQR
\* is 0, and 0.2 is returned
C19_Witness ==
    /\ pc = "returned"
    /\ args.method = "iqr"
    /\ Len(args.data[1]) = 5
    /\ \E c \in DOMAIN args.data : Cardinality(Range(args.data[c])) = 2
                                     /\ Quantile20(args.data[c], 5) = Quantile20(args.data[c], 15)
    /\ Cardinality(RowsOutsideFences(args.data)) = 1
    /\ ret = Scale \div 5

\* column y is column x stretched so that p5 / 20 goes to 0.1 and p95 / 20
\* to 0.9, rounded down to 1 / Scale and clamped to 0..1
StretchedAndClamped(x, y, p5, p95) ==
    \A i \in DOMAIN x :
        LET lo == Scale \div 10
            span == (8 * Scale) \div 10
            \* (the stretched value of x[i]) * (p95 - p5)
            t == lo * (p95 - p5) + span * (20 * x[i] - p5)
        IN /\ 20 * x[i] = p5 => y[i] = lo
           /\ 20 * x[i] = p95 => y[i] = lo + span
           /\ \A j \in DOMAIN x : x[i] <= x[j] => y[i] <= y[j]
           /\ IF t < 0 THEN y[i] = 0
              ELSE IF t >= Scale * (p95 - p5) THEN y[i] = Scale
              ELSE y[i] * (p95 - p5) <= t /\ t < (y[i] + 1) * (p95 - p5)

\* C18: _normalize_scores leaves every listed score column within 0..1: the
\* 5th percentile goes to 0.1 and the 95th to 0.9 by an order-preserving
\* affine stretch, clamped, when the two differ; a column of one repeated
\* value becomes 0.2 throughout.
C18_NormalizedScoresInUnitRange ==
    pc = "returned" =>
        /\ ret.n = args.df.n /\ ret.cols = args.df.cols
        /\ \A k \in DOMAIN args.df.cols :
              LET col == args.df.cols[k]
                  x == args.df.val[col]
                  y == ret.val[col]
                  p5 == Quantile20(x, 1)
                  p95 == Quantile20(x, 19)
              IN IF col \in Range(args.score_cols)
                 THEN /\ DOMAIN y = DOMAIN x
                      /\ \A i \in DOMAIN y : 0 <= y[i] /\ y[i] <= Scale
                      /\ p95 # p5 => StretchedAndClamped(x, y, p5, p95)
                      /\ Cardinality(Range(x)) = 1 =>
                            \A i \in DOMAIN y : y[i] = (2 * Scale) \div 10
                 ELSE y = x

\* C18 happens: a column is stretched, with a score at its 95th percentile
\* and one below the 5th clamped to 0, next to a column of one value
C18_Witness ==
    /\ pc = "returned"
    /\ LET x == args.df.val[ScoreCol("IsolationForest")]
           y == ret.val[ScoreCol("IsolationForest")]
       IN /\ Quantile20(x, 1) # Quantile20(x, 19)
          /\ \E i \in DOMAIN x : /\ 20 * x[i] = Quantile20(x, 19)
                                   /\ y[i] = Scale \div 10 + (8 * Scale) \div 10
          /\ \E i \in DOMAIN y : y[i] = 0 /\ 20 * x[i] < Quantile20(x, 1)
    /\ \A i \in 1..ret.n : ret.val[ScoreCol("KNN")][i] = (2 * Scale) \div 10

\* column c of table df is 0 on every row
AllZero(df, c) == HasCol(df, c) /\ \A i \in 1..df.n : df.val[c][i] = 0

\* C6: when the fit/predict of a detector raised, its *_Anomaly and its
\* *_AnomalyScore column are 0 on every row of the table
\* run_anomaly_detection_models returns, and all four detectors have run.
C6_FailedDetectorColumnsZero ==
    pc = "insights" =>
        /\ ran = <<"IsolationForest", "OneClassSVM", "KNN", "Autoencoder">>
        /\ \A d \in failed :
              AllZero(raw, AnomalyCol(d)) /\ AllZero(raw, ScoreCol(d))

\* C7: Anomaly_Score_Mean and Anomaly_Score_STD are the mean and the sample
\* standard deviation of the same four scores whenever the KNN score is there.
C7_MeanAndStdOverFourScores ==
    \A sys \in DOMAIN results : \A i \in 1..results[sys].n :
        LET df == results[sys]
            four == [k \in 1..4 |-> df.val[ScoreCol(BaseDetectors[k])][i]]
            s1 == SumSeq(four)
            s2 == SumSeq([k \in 1..4 |-> four[k] * four[k]])
        IN HasCol(df, ScoreCol("KNN")) =>
              /\ df.val[AnomalyScoreMean][i] = s1 \div 4
              /\ df.val[AnomalyScoreSTD][i] = ISqrt((4 * s2 - s1 * s1) \div 12)

\* C8: the normalization runs after all four detectors have produced their
\* scores, and it rescales the score column of each of the four.
C8_NormalizationAfterAllDetectors ==
    normAt # <<>> =>
        /\ Range(normAt) = Range(BaseDetectors)
        /\ \A d \in Range(BaseDetectors) : ScoreCol(d) \in Range(normCols)

\* C9: on a matrix of at least 3 rows and 2 columns, the table
\* run_anomaly_detection_models returns has the original columns, then
\* exactly the four *_Anomaly / *_AnomalyScore pairs, each a full column, and
\* the rows of the input, whichever detectors failed.
C9_OriginalColumnsPlusFourPairs ==
    pc = "insights" =>
        LET feature_cols == ColMapGet(colmap, system)
            added == {AnomalyCol(d) : d \in Range(BaseDetectors)}
                     \cup {ScoreCol(d) : d \in Range(BaseDetectors)}
        IN /\ raw.n = merged.n
           /\ SubSeq(raw.cols, 1, Len(feature_cols)) = feature_cols
           /\ Len(raw.cols) = Len(feature_cols) + 2 * Len(BaseDetectors)
           /\ Range(raw.cols) = Range(feature_cols) \cup added
           /\ \A c \in added : DOMAIN raw.val[c] = 1..raw.n

\* C9 happens: a returned table after some detectors failed and some did not
C9_Witness ==
    /\ pc = "insights"
    /\ raw.n >= 3
    /\ Len(ColMapGet(colmap, system)) >= 2
    /\ failed = {"OneClassSVM", "Autoencoder"}

\* the documented ladder of _classify for race i of table df, restated on
\* the columns of the table: the quantiles are taken over all its races
LadderLevel(df, i) ==
    LET enh == df.val[EnhancedAnomalyScore]
        std == df.val[AnomalyScoreSTD]
        adj == IF 20 * std[i] >= Quantile20(std, 15) THEN Scale \div 10
               ELSE IF 20 * std[i] <= Quantile20(std, 5) THEN 0 - Scale \div 10
               ELSE 0
    IN CASE 20 * enh[i] >= Quantile20(enh, 19) + 20 * adj -> "critical"
         [] 20 * enh[i] < Quantile20(enh, 19) + 20 * adj
            /\ 20 * enh[i] >= Quantile20(enh, 17) + 20 * adj -> "high"
         [] 20 * enh[i] < Quantile20(enh, 17) + 20 * adj
            /\ 20 * enh[i] >= Quantile20(enh, 15) -> "medium"
         [] 20 * enh[i] < Quantile20(enh, 17) + 20 * adj
            /\ 20 * enh[i] < Quantile20(enh, 15)
            /\ 20 * enh[i] >= Quantile20(enh, 10) -> "low"
         [] OTHER -> "normal"

\* C10: Anomaly_Level is the ladder: critical from sq[0.95]+adj, high from
\* sq[0.85]+adj, medium from sq[0.75], low from sq[0.50], else normal, adj
\* being +0.1 in the top quartile of STD, -0.1 in the bottom quartile, else 0.
C10_LevelFollowsLadder ==
    \A sys \in DOMAIN results : \A i \in 1..results[sys].n :
        results[sys].val[AnomalyLevel][i] = LadderLevel(results[sys], i)

\* C10 happens: a table with a critical race, a race the adjustment keeps
\* from critical, and a normal race
C10_Witness ==
    \E sys \in DOMAIN results :
        LET df == results[sys]
        IN /\ \E i \in 1..df.n : df.val[AnomalyLevel][i] = "critical"
           /\ \E i \in 1..df.n : df.val[AnomalyLevel][i] = "normal"
           /\ \E i \in 1..df.n :
                 /\ 20 * df.val[EnhancedAnomalyScore][i]
                       >= Quantile20(df.val[EnhancedAnomalyScore], 19)
                 /\ df.val[AnomalyLevel][i] # "critical"

====
